---- MODULE Spec2Model ----
(***************************************************************************)
(* A model of dayflow's calendar-body normalisation and of its continuous  *)
(* sync daemon:                                                            *)
(*   dayflow/core/html_to_markdown.py  HTMLToMarkdownConverter,            *)
(*       html_to_markdown, preprocess_teams_html, clean_markdown_output,   *)
(*       extract_meeting_url                                               *)
(*   dayflow/core/graph_client.py      _extract_online_meeting_url         *)
(*   dayflow/core/sync_daemon.py       ContinuousSyncManager               *)
(*                                                                         *)
(* A Python str is a sequence of one-character strings; the list           *)
(* self.output is a sequence of such sequences (the fragments).  An        *)
(* Optional value is a tuple of length at most one: << >> is None and      *)
(* <<v>> is the value v.                                                   *)
(***************************************************************************)
EXTENDS Integers, Sequences, FiniteSets, TLC

VARIABLES
    conv,      \* the HTMLToMarkdownConverter instance (its fields)
    events,    \* the parser events delivered to conv so far
    pc,        \* position of the caller
    result,    \* value returned by get_markdown, once it has returned
    fn,        \* the function under test in the function specifications
    arg,       \* its argument
    ret,       \* its return value
    ret2,      \* the return value of a second application to ret
    manager,   \* the ContinuousSyncManager instance (its fields), None before
               \* it is constructed
    files,     \* the PID file and the status file of the daemon
    clock,     \* datetime.now(), in seconds
    remaining, \* the loop variable of _wait_with_countdown
    attempts   \* the outcomes of the engine.sync calls made so far

\* the variables of the sync daemon
daemonVars == <<manager, files, clock, remaining, attempts>>

vars == <<conv, events, pc, result, fn, arg, ret, ret2, daemonVars>>

(***************************************************************************)
(* Bounds of the model.                                                    *)
(***************************************************************************)
MaxEvents == 5

(***************************************************************************)
(* Optional values.                                                        *)
(***************************************************************************)
None == << >>

Some(v) == <<v>>

\* no ContinuousSyncManager has been constructed
NoDaemon ==
    /\ manager = None
    /\ files = [pid_file |-> FALSE, status_file |-> None, status_writable |-> TRUE]
    /\ clock = 0
    /\ remaining = 0
    /\ attempts = << >>

(***************************************************************************)
(* str helpers, as Python computes them.                                   *)
(***************************************************************************)
\* U+00A0, a character a TLA+ string cannot hold
NBSP == "U+00A0"

\* any other whitespace character outside ASCII
UnicodeSpace == "U+2003"

\* the whitespace of str.strip / str.rstrip / str.lstrip and of \s
Whitespace == {" ", "\t", "\n", "\r", "\f", NBSP, UnicodeSpace}

\* the backtick character, which a TLA+ string cannot hold
Backtick == "BACKTICK"

\* "```\n"
Fence == <<Backtick, Backtick, Backtick, "\n">>

NL == <<"\n">>

NLNL == <<"\n", "\n">>

\* s.endswith(suf)
EndsWith(s, suf) ==
    /\ Len(s) >= Len(suf)
    /\ SubSeq(s, Len(s) - Len(suf) + 1, Len(s)) = suf

\* s.startswith(pre, i-1): pre occurs in s at (1-based) position i
OccursAt(s, pre, i) ==
    /\ i >= 1
    /\ i + Len(pre) - 1 <= Len(s)
    /\ SubSeq(s, i, i + Len(pre) - 1) = pre

RECURSIVE Repeat(_, _)
\* s * n
Repeat(s, n) == IF n <= 0 THEN << >> ELSE s \o Repeat(s, n - 1)

RECURSIVE Join(_)
\* "".join(frags)
Join(frags) == IF frags = << >> THEN << >> ELSE Head(frags) \o Join(Tail(frags))

RECURSIVE RStrip(_)
\* s.rstrip()
RStrip(s) ==
    IF s # << >> /\ s[Len(s)] \in Whitespace
    THEN RStrip(SubSeq(s, 1, Len(s) - 1))
    ELSE s

RECURSIVE LStrip(_)
\* s.lstrip()
LStrip(s) ==
    IF s # << >> /\ Head(s) \in Whitespace THEN LStrip(Tail(s)) ELSE s

\* s.strip()
Strip(s) == LStrip(RStrip(s))

RECURSIVE SplitLines(_)
\* s.split("\n"): always at least one line
SplitLines(s) ==
    IF \A i \in 1..Len(s) : s[i] # "\n"
    THEN <<s>>
    ELSE LET k == CHOOSE i \in 1..Len(s) :
                      s[i] = "\n" /\ \A j \in 1..(i - 1) : s[j] # "\n"
         IN  <<SubSeq(s, 1, k - 1)>> \o SplitLines(SubSeq(s, k + 1, Len(s)))

RECURSIVE JoinLines(_)
\* "\n".join(lines)
JoinLines(lines) ==
    IF lines = << >> THEN << >>
    ELSE IF Len(lines) = 1 THEN lines[1]
    ELSE lines[1] \o NL \o JoinLines(Tail(lines))

\* [line.rstrip() for line in lines]
RStripEach(lines) == [i \in 1..Len(lines) |-> RStrip(lines[i])]

Min(S) == CHOOSE x \in S : \A y \in S : x <= y

Max(S) == CHOOSE x \in S : \A y \in S : x >= y

\* length of the run of characters of set S that starts at position i of s
RunLen(s, i, S) ==
    LET stops == {j \in i..Len(s) : s[j] \notin S}
    IN  IF stops # {} THEN Min(stops) - i
        ELSE IF i <= Len(s) THEN Len(s) - i + 1
        ELSE 0

RECURSIVE CollapseNewlinesFrom(_, _)
CollapseNewlinesFrom(s, i) ==
    IF i > Len(s) THEN << >>
    ELSE LET n == RunLen(s, i, {"\n"})
         IN  IF n >= 3 THEN NLNL \o CollapseNewlinesFrom(s, i + n)
             ELSE IF n >= 1 THEN SubSeq(s, i, i + n - 1) \o CollapseNewlinesFrom(s, i + n)
             ELSE <<s[i]>> \o CollapseNewlinesFrom(s, i + 1)

\* re.sub(r"\n{3,}", "\n\n", s)
CollapseNewlines(s) == CollapseNewlinesFrom(s, 1)

RECURSIVE CollapseWhitespaceFrom(_, _)
CollapseWhitespaceFrom(s, i) ==
    IF i > Len(s) THEN << >>
    ELSE LET n == RunLen(s, i, Whitespace)
         IN  IF n >= 1 THEN <<" ">> \o CollapseWhitespaceFrom(s, i + n)
             ELSE <<s[i]>> \o CollapseWhitespaceFrom(s, i + 1)

\* re.sub(r"\s+", " ", s)
CollapseWhitespace(s) == CollapseWhitespaceFrom(s, 1)

(***************************************************************************)
(* HTMLToMarkdownConverter.                                                *)
(***************************************************************************)
\* __init__
NewConverter ==
    [ output       |-> << >>,
      current_tag  |-> None,
      list_stack   |-> << >>,
      link_href    |-> None,
      in_pre       |-> FALSE,
      in_code      |-> FALSE,
      skip_content |-> FALSE,
      style_tags   |-> 0 ]

HeaderTags == {"h1", "h2", "h3", "h4", "h5", "h6"}

\* int(tag[1]) for a header tag
HeaderLevel(tag) ==
    CASE tag = "h1" -> 1 [] tag = "h2" -> 2 [] tag = "h3" -> 3
      [] tag = "h4" -> 4 [] tag = "h5" -> 5 [] tag = "h6" -> 6

\* Emit on a buffer kept as one string: the text is added to the last fragment
EmitJoined(c, frag) ==
    IF c.output = << >> THEN [c EXCEPT !.output = <<frag>>]
    ELSE [c EXCEPT !.output[Len(c.output)] = @ \o frag]

\* self.output.append(frag)
Emit(c, frag) == [c EXCEPT !.output = Append(@, frag)]

\* if self.output and self.output[-1] != frag: self.output.append(frag)
EmitUnlessLast(c, frag) ==
    IF c.output # << >> /\ c.output[Len(c.output)] # frag
    THEN Emit(c, frag)
    ELSE c

\* the blank line decided from the last fragment instead of the joined text
EnsureBlankLineLastFragment(c) ==
    IF c.output # << >> /\ c.output[Len(c.output)] # NLNL
    THEN IF c.output[Len(c.output)] = NL THEN Emit(c, NL) ELSE Emit(c, NLNL)
    ELSE c

\* the blank-line insertion of the p and h1..h6 start tags
EnsureBlankLine(c) ==
    LET current == Join(c.output)
    IN  IF current # << >> /\ ~EndsWith(current, NLNL)
        THEN IF EndsWith(current, NL) THEN Emit(c, NL) ELSE Emit(c, NLNL)
        ELSE c

\* attrs_dict.get("href", ""), attrs being a function on a set of attribute names
HrefOf(attrs) == IF "href" \in DOMAIN attrs THEN attrs["href"] ELSE Some(<< >>)

\* str(self.link_href) inside the f-string
FormatHref(h) == IF h = None THEN <<"N", "o", "n", "e">> ELSE h[1]

\* ListItemStart indenting by the full depth of list_stack
ListItemStartDeepIndent(c) ==
    LET indent == Repeat(<<" ", " ">>, Len(c.list_stack))
    IN  IF c.list_stack # << >> /\ c.list_stack[Len(c.list_stack)] = "ul"
        THEN Emit(c, indent \o <<"-", " ">>)
        ELSE IF c.list_stack # << >> /\ c.list_stack[Len(c.list_stack)] = "ol"
        THEN Emit(c, indent \o <<"1", ".", " ">>)
        ELSE c

\* the li marker: indent = "  " * (len(self.list_stack) - 1), then "- " or "1. "
ListItemStart(c) ==
    LET indent == Repeat(<<" ", " ">>, Len(c.list_stack) - 1)
    IN  IF c.list_stack # << >> /\ c.list_stack[Len(c.list_stack)] = "ul"
        THEN Emit(c, indent \o <<"-", " ">>)
        ELSE IF c.list_stack # << >> /\ c.list_stack[Len(c.list_stack)] = "ol"
        THEN Emit(c, indent \o <<"1", ".", " ">>)
        ELSE c

\* the style/script branch of handle_starttag
SkipOpen(c) == [c EXCEPT !.skip_content = TRUE, !.style_tags = @ + 1]

\* SkipClose as a boolean flag would do it: any end tag resumes emission
SkipCloseResumesAlways(c) ==
    LET n == IF c.style_tags - 1 > 0 THEN c.style_tags - 1 ELSE 0
    IN  [c EXCEPT !.style_tags = n, !.skip_content = FALSE]

\* SkipClose without the floor at zero
SkipCloseNoFloor(c) ==
    LET n == c.style_tags - 1
    IN  [c EXCEPT !.style_tags = n,
                  !.skip_content = IF n = 0 THEN FALSE ELSE @]

\* the style/script branch of handle_endtag
SkipClose(c) ==
    LET n == IF c.style_tags - 1 > 0 THEN c.style_tags - 1 ELSE 0
    IN  [c EXCEPT !.style_tags = n,
                  !.skip_content = IF n = 0 THEN FALSE ELSE @]

\* handle_starttag below the skip_content test
StartTagBody(c, tag, attrs) ==
    CASE tag = "p" -> EnsureBlankLine(c)
      [] tag \in HeaderTags ->
            Emit(EnsureBlankLine(c), Repeat(<<"#">>, HeaderLevel(tag)) \o <<" ">>)
      [] tag \in {"b", "strong"} -> Emit(c, <<"*", "*">>)
      [] tag \in {"i", "em"} -> Emit(c, <<"*">>)
      [] tag = "a" -> Emit([c EXCEPT !.link_href = HrefOf(attrs)], <<"[">>)
      [] tag = "ul" -> EmitUnlessLast([c EXCEPT !.list_stack = Append(@, "ul")], NL)
      [] tag = "ol" -> EmitUnlessLast([c EXCEPT !.list_stack = Append(@, "ol")], NL)
      [] tag = "li" -> ListItemStart(c)
      [] tag = "br" -> Emit(c, NL)
      [] tag = "hr" -> Emit(EmitUnlessLast(c, NL), <<"-", "-", "-", "\n">>)
      [] tag = "code" -> Emit([c EXCEPT !.in_code = TRUE], <<Backtick>>)
      [] tag = "pre" ->
            Emit(EmitUnlessLast([c EXCEPT !.in_pre = TRUE], NLNL), Fence)
      [] tag = "blockquote" -> Emit(EmitUnlessLast(c, NL), <<">", " ">>)
      [] tag = "table" -> EmitUnlessLast(c, NLNL)
      [] tag = "tr" -> EmitUnlessLast(c, NL)
      [] tag \in {"td", "th"} -> Emit(c, <<"|", " ">>)
      [] OTHER -> c

\* handle_starttag without its early return inside a style/script region
HandleStartTagNoSkipReturn(c, tag, attrs) ==
    LET c1 == [c EXCEPT !.current_tag = Some(tag)]
    IN  IF tag \in {"style", "script"} THEN SkipOpen(c1)
        ELSE StartTagBody(c1, tag, attrs)

\* handle_starttag(tag, attrs)
HandleStartTag(c, tag, attrs) ==
    LET c1 == [c EXCEPT !.current_tag = Some(tag)]
    IN  IF tag \in {"style", "script"} THEN SkipOpen(c1)
        ELSE IF c1.skip_content THEN c1
        ELSE StartTagBody(c1, tag, attrs)

\* handle_endtag below the skip_content test
EndTagBody(c, tag) ==
    CASE tag \in {"b", "strong"} -> Emit(c, <<"*", "*">>)
      [] tag \in {"i", "em"} -> Emit(c, <<"*">>)
      [] tag = "a" ->
            [Emit(c, <<"]", "(">> \o FormatHref(c.link_href) \o <<")">>)
                EXCEPT !.link_href = None]
      [] tag \in {"ul", "ol"} ->
            EmitUnlessLast(
                [c EXCEPT !.list_stack =
                    IF @ # << >> THEN SubSeq(@, 1, Len(@) - 1) ELSE @], NL)
      [] tag = "li" -> EmitUnlessLast(c, NL)
      [] tag \in {"p"} \cup HeaderTags -> EmitUnlessLast(c, NL)
      [] tag = "code" -> Emit([c EXCEPT !.in_code = FALSE], <<Backtick>>)
      [] tag = "pre" ->
            Emit(EmitUnlessLast([c EXCEPT !.in_pre = FALSE], NL), Fence)
      [] tag = "blockquote" -> EmitUnlessLast(c, NL)
      [] tag \in {"td", "th"} -> Emit(c, <<" ">>)
      [] tag = "tr" -> EmitUnlessLast(Emit(c, <<"|">>), NL)
      [] tag = "div" -> c
      [] OTHER -> c

\* handle_endtag without its early return inside a style/script region
HandleEndTagNoSkipReturn(c, tag) ==
    IF tag \in {"style", "script"} THEN SkipClose(c)
    ELSE EndTagBody(c, tag)

\* handle_endtag with a div end tag that ends the line
HandleEndTagDivNewline(c, tag) ==
    IF tag \in {"style", "script"} THEN SkipClose(c)
    ELSE IF c.skip_content THEN c
    ELSE IF tag = "div" THEN EmitUnlessLast(c, NL)
    ELSE EndTagBody(c, tag)

\* handle_endtag that closes a list from inside a skip region
HandleEndTagPopsInRegion(c, tag) ==
    IF tag \in {"style", "script"} THEN SkipClose(c)
    ELSE IF c.skip_content
    THEN IF tag \in {"ul", "ol"} /\ c.list_stack # << >>
         THEN [c EXCEPT !.list_stack = SubSeq(@, 1, Len(@) - 1)]
         ELSE c
    ELSE EndTagBody(c, tag)

\* handle_endtag(tag)
HandleEndTag(c, tag) ==
    IF tag \in {"style", "script"} THEN SkipClose(c)
    ELSE IF c.skip_content THEN c
    ELSE EndTagBody(c, tag)

\* CleanData without the collapse of whitespace runs
CleanDataStripOnly(c, data) ==
    IF c.output # << >> /\ c.output[Len(c.output)] \in {NL, NLNL}
    THEN LStrip(data)
    ELSE data

\* the whitespace clean-up of handle_data, for text outside pre and code
CleanData(c, data) ==
    LET collapsed == CollapseWhitespace(data)
    IN  IF c.output # << >> /\ c.output[Len(c.output)] \in {NL, NLNL}
        THEN LStrip(collapsed)
        ELSE collapsed

\* handle_data(data)
HandleData(c, data) ==
    IF c.skip_content THEN c
    ELSE IF ~c.in_pre /\ ~c.in_code THEN Emit(c, CleanData(c, data))
    ELSE Emit(c, data)

\* Cleanup collapsing the newlines before the lines are right-trimmed
CleanupCollapseFirst(joined) ==
    Strip(JoinLines(RStripEach(SplitLines(CollapseNewlines(joined)))))

\* the clean-up of get_markdown, on the joined string
Cleanup(joined) == Strip(CollapseNewlines(JoinLines(RStripEach(SplitLines(joined)))))

\* get_markdown()
GetMarkdown(c) == Cleanup(Join(c.output))

(***************************************************************************)
(* The parser events HTMLParser delivers to the converter.                 *)
(***************************************************************************)
StartEv(tag, attrs) == [kind |-> "start", tag |-> tag, attrs |-> attrs, data |-> << >>]

EndEv(tag) == [kind |-> "end", tag |-> tag, attrs |-> << >>, data |-> << >>]

DataEv(data) == [kind |-> "data", tag |-> "", attrs |-> << >>, data |-> data]

\* a start tag without attributes
NoAttrs == << >>

\* the callback HTMLParser invokes for one event
Dispatch(c, e) ==
    CASE e.kind = "start" -> HandleStartTag(c, e.tag, e.attrs)
      [] e.kind = "end" -> HandleEndTag(c, e.tag)
      [] e.kind = "data" -> HandleData(c, e.data)

RECURSIVE Replay(_)
\* the converter after a fresh instance has been fed the events evs
Replay(evs) ==
    IF evs = << >> THEN NewConverter
    ELSE Dispatch(Replay(SubSeq(evs, 1, Len(evs) - 1)), evs[Len(evs)])

(***************************************************************************)
(* The style/script region as the specification defines it, computed from  *)
(* the event sequence alone: a start tag opens one level, an end tag       *)
(* closes one level if any is open.                                        *)
(***************************************************************************)
SkipTagNames == {"style", "script"}

IsSkipStart(e) == e.kind = "start" /\ e.tag \in SkipTagNames

IsSkipEnd(e) == e.kind = "end" /\ e.tag \in SkipTagNames

RECURSIVE SkipDepth(_)
SkipDepth(evs) ==
    IF evs = << >> THEN 0
    ELSE LET d == SkipDepth(SubSeq(evs, 1, Len(evs) - 1))
             e == evs[Len(evs)]
         IN  IF IsSkipStart(e) THEN d + 1
             ELSE IF IsSkipEnd(e) /\ d > 0 THEN d - 1
             ELSE d

RegionOpen(evs) == SkipDepth(evs) > 0

(***************************************************************************)
(* Feeding one converter: html_to_markdown creates the converter, feed()   *)
(* delivers the events in order, get_markdown() returns the result.        *)
(***************************************************************************)
\* text of a style sheet or script, and text of the document
SkippedText == <<"s">>

PlainText == <<"x">>

\* the text delivered next: style/script text inside a region, document text outside
TextsNow == IF RegionOpen(events) THEN {SkippedText} ELSE {PlainText}

FeedInit ==
    /\ NoDaemon
    /\ conv = NewConverter
    /\ events = << >>
    /\ pc = "feed"
    /\ result = None
    /\ fn = ""
    /\ arg = << >>
    /\ ret = None
    /\ ret2 = None

\* feed() reaches a start tag: handle_starttag(tag, attrs)
StartTag(tag, attrs) ==
    /\ pc = "feed"
    /\ Len(events) < MaxEvents
    /\ conv' = HandleStartTag(conv, tag, attrs)
    /\ events' = Append(events, StartEv(tag, attrs))
    /\ UNCHANGED <<pc, result, fn, arg, ret, ret2, daemonVars>>

\* feed() reaches an end tag: handle_endtag(tag)
EndTag(tag) ==
    /\ pc = "feed"
    /\ Len(events) < MaxEvents
    /\ conv' = HandleEndTag(conv, tag)
    /\ events' = Append(events, EndEv(tag))
    /\ UNCHANGED <<pc, result, fn, arg, ret, ret2, daemonVars>>

\* feed() reaches text: handle_data(data)
Data(data) ==
    /\ pc = "feed"
    /\ Len(events) < MaxEvents
    /\ conv' = HandleData(conv, data)
    /\ events' = Append(events, DataEv(data))
    /\ UNCHANGED <<pc, result, fn, arg, ret, ret2, daemonVars>>

\* converter.get_markdown() at the end of html_to_markdown
Finish ==
    /\ pc = "feed"
    /\ result' = Some(GetMarkdown(conv))
    /\ pc' = "done"
    /\ UNCHANGED <<conv, events, fn, arg, ret, ret2, daemonVars>>

(***************************************************************************)
(* SpecSkip: documents of style, script and b tags and text.               *)
(***************************************************************************)
SkipSpecTags == {"style", "script", "b"}

NextSkip ==
    \/ \E tag \in SkipSpecTags : StartTag(tag, NoAttrs)
    \/ \E tag \in SkipSpecTags : EndTag(tag)
    \/ \E d \in TextsNow : Data(d)
    \/ Finish

SpecSkip == FeedInit /\ [][NextSkip]_vars

Has(s, ch) == \E i \in 1..Len(s) : s[i] = ch

\* C1: text that arrives while a style/script region is open (at any nesting
\* depth, whatever stray or mismatched style/script end tags occurred) is in
\* no fragment of the output buffer and not in the returned Markdown.
C1_SkippedTextNeverEmitted ==
    /\ ~Has(Join(conv.output), "s")
    /\ result # None => ~Has(result[1], "s")

\* C1 witness: after a stray end tag, two nested start tags and one end tag,
\* a text arrived in the still open region, and the call returned.
C1_Witness ==
    /\ pc = "done"
    /\ Len(events) >= 1 /\ IsSkipEnd(events[1])
    /\ \E i \in 1..Len(events) :
          /\ events[i].kind = "data" /\ events[i].data = SkippedText
          /\ SkipDepth(SubSeq(events, 1, i)) = 1
          /\ i > 1 /\ IsSkipEnd(events[i - 1])
    /\ result = Some(<< >>)

\* the events before the first style/script start tag that no style/script
\* end tag follows
UnterminatedAt(evs, i) ==
    /\ IsSkipStart(evs[i])
    /\ \A j \in (i + 1)..Len(evs) : ~IsSkipEnd(evs[j])

\* C2: when a style/script start tag is followed by no style/script end tag,
\* nothing after it is emitted: the buffer is the buffer as it was when the
\* region opened and the returned Markdown is the Markdown of that buffer.
C2_UnterminatedRegionDiscarded ==
    \A i \in 1..Len(events) :
        UnterminatedAt(events, i) =>
            LET before == Replay(SubSeq(events, 1, i - 1))
            IN  /\ conv.output = before.output
                /\ pc = "done" => result = Some(Cleanup(Join(before.output)))

\* C2 witness: text was emitted, a region opened and never closed, text and a
\* tag followed, and the call returned the text emitted before the region.
C2_Witness ==
    /\ pc = "done"
    /\ \E i \in 2..Len(events) :
          /\ UnterminatedAt(events, i)
          /\ \E j \in (i + 1)..Len(events) : events[j].kind = "data"
          /\ \E j \in (i + 1)..Len(events) : events[j] = StartEv("b", NoAttrs)
    /\ result = Some(<<"x">>)

\* C3: the nesting counter is never negative, it is the number of style/script
\* start tags minus the style/script end tags with the floor at zero applied at
\* each end tag, and the skip flag is set exactly when it is positive.
C3_SkipCounter ==
    /\ conv.style_tags >= 0
    /\ conv.style_tags = SkipDepth(events)
    /\ conv.skip_content <=> conv.style_tags > 0

\* C3 witness: an end tag arrived at depth zero and left the counter at zero,
\* then two start tags and one end tag left it at one.
C3_Witness ==
    /\ Len(events) >= 4
    /\ IsSkipEnd(events[1])
    /\ IsSkipStart(events[2]) /\ IsSkipStart(events[3]) /\ IsSkipEnd(events[4])
    /\ conv.style_tags = 1
    /\ conv.skip_content

(***************************************************************************)
(* SpecList: documents of ul, ol, li and style tags and text.              *)
(***************************************************************************)
ListSpecTags == {"ul", "ol", "li", "style"}

NextList ==
    \/ \E tag \in ListSpecTags : StartTag(tag, NoAttrs)
    \/ \E tag \in ListSpecTags : EndTag(tag)
    \/ \E d \in TextsNow : Data(d)
    \/ Finish

SpecList == FeedInit /\ [][NextList]_vars

RECURSIVE OpenLists(_)
\* the lists open after the events evs, innermost last, from the events alone:
\* outside a style/script region a ul/ol start tag opens a list and a ul/ol
\* end tag closes the innermost open list
OpenLists(evs) ==
    IF evs = << >> THEN << >>
    ELSE LET before == SubSeq(evs, 1, Len(evs) - 1)
             open == OpenLists(before)
             e == evs[Len(evs)]
         IN  IF RegionOpen(before) THEN open
             ELSE IF e.kind = "start" /\ e.tag \in {"ul", "ol"} THEN Append(open, e.tag)
             ELSE IF e.kind = "end" /\ e.tag \in {"ul", "ol"} /\ open # << >>
                  THEN SubSeq(open, 1, Len(open) - 1)
             ELSE open

\* the step delivers an li start tag outside a skip region with a list open
LiStartStep ==
    /\ events' = Append(events, StartEv("li", NoAttrs))
    /\ ~RegionOpen(events)
    /\ OpenLists(events) # << >>

\* C10: an li start tag outside a skip region with d >= 1 lists open appends
\* exactly one fragment, 2*(d-1) spaces followed by "- " when the innermost
\* open list is a ul and by the literal "1. " when it is an ol; the open lists
\* are those the ul/ol start and end tags so far leave open, so after an inner
\* list is closed the enclosing list decides.
C10_ListItemMarker ==
    [][LiStartStep =>
        LET open == OpenLists(events)
            d == Len(open)
            marker == IF open[d] = "ul" THEN <<"-", " ">> ELSE <<"1", ".", " ">>
        IN  conv'.output = Append(conv.output, Repeat(<<" ">>, 2 * (d - 1)) \o marker)
      ]_vars

\* C10 witness: inside ul > ol an ordered item was emitted with two spaces of
\* indentation, the ol was closed, and the next item got the marker of the ul
\* without indentation.
C10_Witness ==
    /\ Len(events) = 5
    /\ events[1] = StartEv("ul", NoAttrs)
    /\ events[2] = StartEv("ol", NoAttrs)
    /\ events[3] = StartEv("li", NoAttrs)
    /\ events[4] = EndEv("ol")
    /\ events[5] = StartEv("li", NoAttrs)
    /\ conv.output = << <<" ", " ", "1", ".", " ">>, <<"\n">>, <<"-", " ">> >>

(***************************************************************************)
(* clean_markdown_output.                                                  *)
(***************************************************************************)
\* clean_markdown_output(markdown)
CleanMarkdownOutput(markdown) ==
    Strip(JoinLines(RStripEach(SplitLines(CollapseNewlines(markdown)))))

(***************************************************************************)
(* SpecPost: the two postprocessors applied to a string, and applied again *)
(* to their own result.                                                    *)
(***************************************************************************)
MaxLen == 6

PostChars == {"a", " ", "\t", "\n"}

\* the strings over chars of length at most n
StringsUpTo(chars, n) == UNION {[1..k -> chars] : k \in 0..n}

\* the state in which no converter is being fed
NoFeed ==
    /\ NoDaemon
    /\ events = << >>
    /\ result = None

PostInit ==
    /\ NoFeed
    /\ pc = "call"
    /\ fn \in {"get_markdown", "clean_markdown_output"}
    /\ arg \in StringsUpTo(PostChars, MaxLen)
    /\ conv = [NewConverter EXCEPT !.output = IF fn = "get_markdown" THEN <<arg>> ELSE << >>]
    /\ ret = None
    /\ ret2 = None

\* get_markdown() on a converter whose buffer holds arg
CallGetMarkdown ==
    /\ pc = "call" /\ fn = "get_markdown"
    /\ ret' = Some(GetMarkdown(conv))
    /\ pc' = "once"
    /\ UNCHANGED <<conv, events, result, fn, arg, ret2, daemonVars>>

\* the clean-up of get_markdown applied to the string it returned
CleanupAgain ==
    /\ pc = "once" /\ fn = "get_markdown"
    /\ ret2' = Some(Cleanup(ret[1]))
    /\ pc' = "twice"
    /\ UNCHANGED <<conv, events, result, fn, arg, ret, daemonVars>>

\* clean_markdown_output(arg)
CallCleanMarkdownOutput ==
    /\ pc = "call" /\ fn = "clean_markdown_output"
    /\ ret' = Some(CleanMarkdownOutput(arg))
    /\ pc' = "once"
    /\ UNCHANGED <<conv, events, result, fn, arg, ret2, daemonVars>>

\* clean_markdown_output applied to the string it returned
CleanMarkdownOutputAgain ==
    /\ pc = "once" /\ fn = "clean_markdown_output"
    /\ ret2' = Some(CleanMarkdownOutput(ret[1]))
    /\ pc' = "twice"
    /\ UNCHANGED <<conv, events, result, fn, arg, ret, daemonVars>>

NextPost ==
    \/ CallGetMarkdown
    \/ CleanupAgain
    \/ CallCleanMarkdownOutput
    \/ CleanMarkdownOutputAgain

SpecPost == PostInit /\ [][NextPost]_vars

\* C8: postprocessing is idempotent, for the clean-up of get_markdown and for
\* clean_markdown_output: applied to its own result it returns that result.
C8_PostprocessIdempotent == pc = "twice" => ret2 = ret

\* the half of C8 that is about get_markdown
GetMarkdownCleanupIdempotent == (pc = "twice" /\ fn = "get_markdown") => ret2 = ret

\* s has no three consecutive newlines, no line of it ends with whitespace,
\* and it neither starts nor ends with whitespace
Canonical(s) ==
    /\ \A i \in 1..(Len(s) - 2) : ~(s[i] = "\n" /\ s[i + 1] = "\n" /\ s[i + 2] = "\n")
    /\ \A i \in 1..Len(s) :
          s[i] \in Whitespace \ {"\n"} => (i < Len(s) /\ s[i + 1] # "\n")
    /\ s # << >> => (s[1] \notin Whitespace /\ s[Len(s)] \notin Whitespace)

\* C9: the string get_markdown returns, which is what html_to_markdown returns,
\* is canonical whatever the buffer holds: at most one blank line in a row, no
\* line ending with whitespace, no leading or trailing whitespace.
C9_ResultCanonical ==
    (pc \in {"once", "twice"} /\ fn = "get_markdown") => Canonical(ret[1])

\* C9 witness: a buffer whose first line is followed by a whitespace-only line
\* and an empty line was returned as two lines separated by one blank line.
C9_Witness ==
    /\ pc = "once" /\ fn = "get_markdown"
    /\ arg = <<"a", "\n", "\t", "\n", "\n", "a">>
    /\ ret = Some(<<"a", "\n", "\n", "a">>)

(***************************************************************************)
(* extract_meeting_url.                                                    *)
(***************************************************************************)
\* the characters the class [^"\s<>] excludes
UrlStop == Whitespace \cup {"\"", "<", ">"}

\* length of the run of characters outside set S that starts at position i of s
RunLenNot(s, i, S) ==
    LET stops == {j \in i..Len(s) : s[j] \in S}
    IN  IF stops # {} THEN Min(stops) - i
        ELSE IF i <= Len(s) THEN Len(s) - i + 1
        ELSE 0

\* "https://"
Https == <<"h", "t", "t", "p", "s", ":", "/", "/">>

\* "https://teams.microsoft.com/l/meetup-join/"
TeamsPrefix ==
    <<"h", "t", "t", "p", "s", ":", "/", "/", "t", "e", "a", "m", "s", ".",
      "m", "i", "c", "r", "o", "s", "o", "f", "t", ".", "c", "o", "m", "/",
      "l", "/", "m", "e", "e", "t", "u", "p", "-", "j", "o", "i", "n", "/">>

\* "zoom.us/"
ZoomHost == <<"z", "o", "o", "m", ".", "u", "s", "/">>

\* "https://meet.google.com/"
MeetPrefix ==
    <<"h", "t", "t", "p", "s", ":", "/", "/", "m", "e", "e", "t", ".", "g",
      "o", "o", "g", "l", "e", ".", "c", "o", "m", "/">>

\* SearchPrefixed with [^"\s<>]* in place of [^"\s<>]+
SearchPrefixedStar(s, prefix) ==
    LET starts == {i \in 1..Len(s) : OccursAt(s, prefix, i)}
    IN  IF starts = {} THEN None
        ELSE LET i == Min(starts)
                 n == Len(prefix) + RunLenNot(s, i + Len(prefix), UrlStop)
             IN  Some(SubSeq(s, i, i + n - 1))

\* re.search(prefix + r'[^"\s<>]+', s): the leftmost match, the class taken greedily
SearchPrefixed(s, prefix) ==
    LET starts == {i \in 1..Len(s) :
                      /\ OccursAt(s, prefix, i)
                      /\ RunLenNot(s, i + Len(prefix), UrlStop) >= 1}
    IN  IF starts = {} THEN None
        ELSE LET i == Min(starts)
                 n == Len(prefix) + RunLenNot(s, i + Len(prefix), UrlStop)
             IN  Some(SubSeq(s, i, i + n - 1))

\* the lengths k that [^\s]* can take after "https://" at i so that zoom\.us/
\* and one character of [^"\s<>] follow
ZoomSkips(s, i) ==
    {k \in 0..RunLenNot(s, i + Len(Https), Whitespace) :
        /\ OccursAt(s, ZoomHost, i + Len(Https) + k)
        /\ RunLenNot(s, i + Len(Https) + k + Len(ZoomHost), UrlStop) >= 1}

\* re.search(r'https://[^\s]*zoom\.us/[^"\s<>]+', s): the leftmost match, with
\* [^\s]* taking the longest length that lets the rest match
SearchZoom(s) ==
    LET starts == {i \in 1..Len(s) : OccursAt(s, Https, i) /\ ZoomSkips(s, i) # {}}
    IN  IF starts = {} THEN None
        ELSE LET i == Min(starts)
                 k == Max(ZoomSkips(s, i))
                 t == i + Len(Https) + k + Len(ZoomHost)
             IN  Some(SubSeq(s, i, t + RunLenNot(s, t, UrlStop) - 1))

\* extract_meeting_url(html_content), html_content an Optional str
ExtractMeetingUrl(html_content) ==
    IF html_content = None \/ html_content[1] = << >> THEN None
    ELSE LET s == html_content[1]
             teams_match == SearchPrefixed(s, TeamsPrefix)
             zoom_match == SearchZoom(s)
             meet_match == SearchPrefixed(s, MeetPrefix)
         IN  IF teams_match # None THEN teams_match
             ELSE IF zoom_match # None THEN zoom_match
             ELSE IF meet_match # None THEN meet_match
             ELSE None

(***************************************************************************)
(* SpecUrl: extract_meeting_url called on None and on texts put together   *)
(* from provider URLs, an incomplete Teams URL, separators and a letter.   *)
(***************************************************************************)
MaxPieces == 4

\* "https://teams.microsoft.com/l/meetup-join/1"
TeamsUrl == TeamsPrefix \o <<"1">>

\* "https://zoom.us/j/2"
ZoomUrl == Https \o ZoomHost \o <<"j", "/", "2">>

\* "https://meet.google.com/x"
MeetUrl == MeetPrefix \o <<"x">>

UrlPieces == {TeamsUrl, ZoomUrl, MeetUrl, TeamsPrefix, <<"\"">>, <<" ">>, <<">">>, <<"a">>}

\* the texts made of at most n pieces
TextsOf(pieces, n) == {Join(f) : f \in UNION {[1..k -> pieces] : k \in 0..n}}

UrlInit ==
    /\ NoFeed
    /\ conv = NewConverter
    /\ pc = "call"
    /\ fn = "extract_meeting_url"
    /\ arg \in {None} \cup {Some(t) : t \in TextsOf(UrlPieces, MaxPieces)}
    /\ ret = None
    /\ ret2 = None

\* extract_meeting_url(arg)
CallExtractMeetingUrl ==
    /\ pc = "call" /\ fn = "extract_meeting_url"
    /\ ret' = ExtractMeetingUrl(arg)
    /\ pc' = "returned"
    /\ UNCHANGED <<conv, events, result, fn, arg, ret2, daemonVars>>

NextUrl == CallExtractMeetingUrl

SpecUrl == UrlInit /\ [][NextUrl]_vars

(***************************************************************************)
(* The URLs of a text, as the claims speak of them: a URL starts at an     *)
(* "https://" and ends just before the first following double quote,       *)
(* whitespace, "<" or ">".                                                 *)
(***************************************************************************)
UrlStartsIn(s) == {i \in 1..Len(s) : OccursAt(s, Https, i)}

UrlAt(s, i) == SubSeq(s, i, i + RunLenNot(s, i, UrlStop) - 1)

IsTeamsUrl(u) == OccursAt(u, TeamsPrefix, 1) /\ Len(u) > Len(TeamsPrefix)

IsMeetUrl(u) == OccursAt(u, MeetPrefix, 1) /\ Len(u) > Len(MeetPrefix)

\* "https://", then a host that ends in zoom.us, then a non-empty path
IsZoomUrl(u) ==
    \E k \in (Len(Https) + 1)..Len(u) :
        OccursAt(u, ZoomHost, k) /\ k + Len(ZoomHost) <= Len(u)

TeamsUrlsIn(s) == {i \in UrlStartsIn(s) : IsTeamsUrl(UrlAt(s, i))}

ZoomUrlsIn(s) == {i \in UrlStartsIn(s) : IsZoomUrl(UrlAt(s, i))}

MeetUrlsIn(s) == {i \in UrlStartsIn(s) : IsMeetUrl(UrlAt(s, i))}

\* C4: the provider priority is Teams > Zoom > Google Meet, not document
\* order: the first Teams URL of the text is returned when it has one, otherwise
\* its first Zoom URL when it has one, otherwise its first Meet URL.
C4_ProviderPriority ==
    (pc = "returned" /\ arg # None) =>
        LET s == arg[1]
        IN  IF TeamsUrlsIn(s) # {} THEN ret = Some(UrlAt(s, Min(TeamsUrlsIn(s))))
            ELSE IF ZoomUrlsIn(s) # {} THEN ret = Some(UrlAt(s, Min(ZoomUrlsIn(s))))
            ELSE IF MeetUrlsIn(s) # {} THEN ret = Some(UrlAt(s, Min(MeetUrlsIn(s))))
            ELSE TRUE

\* what of C4 the code does: Teams before Zoom before Meet whatever the document
\* order; the Teams and Meet results are the first URL of the provider, the Zoom
\* result ends with a Zoom URL of the text but may start at an earlier "https://"
PatternPriority ==
    (pc = "returned" /\ arg # None) =>
        LET s == arg[1]
        IN  /\ TeamsUrlsIn(s) # {} => ret = Some(UrlAt(s, Min(TeamsUrlsIn(s))))
            /\ (TeamsUrlsIn(s) = {} /\ ZoomUrlsIn(s) # {}) =>
                  /\ ret # None
                  /\ OccursAt(ret[1], Https, 1)
                  /\ \E j \in ZoomUrlsIn(s) : EndsWith(ret[1], UrlAt(s, j))
            /\ (TeamsUrlsIn(s) = {} /\ ZoomUrlsIn(s) = {} /\ MeetUrlsIn(s) # {}) =>
                  ret = Some(UrlAt(s, Min(MeetUrlsIn(s))))

\* the text holds a match of one of the three patterns
HasTeamsPattern(s) ==
    \E i \in 1..Len(s) :
        /\ OccursAt(s, TeamsPrefix, i)
        /\ i + Len(TeamsPrefix) <= Len(s)
        /\ s[i + Len(TeamsPrefix)] \notin UrlStop

HasMeetPattern(s) ==
    \E i \in 1..Len(s) :
        /\ OccursAt(s, MeetPrefix, i)
        /\ i + Len(MeetPrefix) <= Len(s)
        /\ s[i + Len(MeetPrefix)] \notin UrlStop

HasZoomPattern(s) ==
    \E i \in 1..Len(s) :
        /\ OccursAt(s, Https, i)
        /\ \E k \in (i + Len(Https))..Len(s) :
              /\ OccursAt(s, ZoomHost, k)
              /\ \A j \in (i + Len(Https))..(k - 1) : s[j] \notin Whitespace
              /\ k + Len(ZoomHost) <= Len(s)
              /\ s[k + Len(ZoomHost)] \notin UrlStop

\* C6: for None, for the empty string and for every text that holds no Teams
\* meetup-join, Zoom or Google Meet URL pattern, extract_meeting_url returns
\* None (the call returns; nothing is raised).
C6_NoneWithoutPattern ==
    pc = "returned" =>
        ((arg = None \/ arg[1] = << >>
            \/ ~(HasTeamsPattern(arg[1]) \/ HasZoomPattern(arg[1]) \/ HasMeetPattern(arg[1])))
         => ret = None)

\* C6 witness: a text with a Teams meetup-join prefix that no URL character
\* follows, an "https://" and letters was searched and None was returned.
C6_Witness ==
    /\ pc = "returned"
    /\ arg = Some(TeamsPrefix \o <<"\"">> \o <<"a">> \o TeamsPrefix)
    /\ ret = None

(***************************************************************************)
(* GraphAPIClient._extract_online_meeting_url.  A JSON value of the event  *)
(* is <<"none">>, <<"str", s>> or <<"dict", d>>, d a function on the set   *)
(* of keys the dict holds.                                                 *)
(***************************************************************************)
PyNone == <<"none">>

PyStr(s) == <<"str", s>>

PyDict(d) == <<"dict", d>>

EmptyDict == PyDict(<< >>)

IsDict(v) == v[1] = "dict"

\* d.get(key, default), d a dict
Get(v, key, default) == IF key \in DOMAIN v[2] THEN v[2][key] ELSE default

\* the truth value Python gives v
Truthy(v) ==
    CASE v[1] = "none" -> FALSE
      [] v[1] = "str" -> v[2] # << >>
      [] v[1] = "dict" -> DOMAIN v[2] # {}

\* the Optional[str] a None-or-str JSON value is
AsOptional(v) == IF v[1] = "str" THEN Some(v[2]) ELSE None

\* the body branch of _extract_online_meeting_url
UrlFromBody(event) ==
    LET body == Get(event, "body", EmptyDict)
    IN  IF IsDict(body)
        THEN LET content == Get(body, "content", PyStr(<< >>))
             IN  IF Truthy(content) THEN ExtractMeetingUrl(AsOptional(content))
                 ELSE None
        ELSE None

\* _extract_online_meeting_url scanning the body before the structured field
ExtractOnlineMeetingUrlBodyFirst(event) ==
    LET online_meeting == Get(event, "onlineMeeting", PyNone)
        join_url == IF Truthy(online_meeting) /\ IsDict(online_meeting)
                    THEN Get(online_meeting, "joinUrl", PyNone)
                    ELSE PyNone
    IN  IF UrlFromBody(event) # None THEN UrlFromBody(event)
        ELSE IF Truthy(join_url) THEN AsOptional(join_url)
        ELSE None

\* _extract_online_meeting_url(event)
ExtractOnlineMeetingUrl(event) ==
    LET online_meeting == Get(event, "onlineMeeting", PyNone)
        join_url == IF Truthy(online_meeting) /\ IsDict(online_meeting)
                    THEN Get(online_meeting, "joinUrl", PyNone)
                    ELSE PyNone
    IN  IF Truthy(join_url) THEN AsOptional(join_url)
        ELSE UrlFromBody(event)

(***************************************************************************)
(* SpecEvent: _extract_online_meeting_url called on events with and        *)
(* without an onlineMeeting property and a body.                           *)
(***************************************************************************)
\* a dict with the one entry key: v
Entry(key, v) == PyDict([k \in {key} |-> v])

\* a join URL of the structured field
JoinUrl == <<"j">>

OnlineMeetingValues ==
    { PyNone, PyStr(<<"a">>), EmptyDict,
      Entry("conferenceId", PyStr(<<"1">>)),
      Entry("joinUrl", PyNone),
      Entry("joinUrl", PyStr(<< >>)),
      Entry("joinUrl", PyStr(JoinUrl)),
      Entry("joinUrl", PyStr(TeamsUrl)) }

BodyTexts ==
    { <<"a">>, ZoomUrl, <<"\"">> \o MeetUrl \o <<"\"">>, MeetUrl \o <<" ">> \o TeamsUrl }

BodyValues ==
    { PyNone, EmptyDict, Entry("content", PyNone), Entry("content", PyStr(<< >>)) }
        \cup {Entry("content", PyStr(t)) : t \in BodyTexts}

\* the events: each property present with one of its values, or absent
Events ==
    {PyDict(<< >>)}
        \cup {Entry("onlineMeeting", om) : om \in OnlineMeetingValues}
        \cup {Entry("body", b) : b \in BodyValues}
        \cup {PyDict([k \in {"onlineMeeting", "body"} |->
                         IF k = "body" THEN b ELSE om]) :
                 om \in OnlineMeetingValues, b \in BodyValues}

EventInit ==
    /\ NoFeed
    /\ conv = NewConverter
    /\ pc = "call"
    /\ fn = "_extract_online_meeting_url"
    /\ arg \in Events
    /\ ret = None
    /\ ret2 = None

\* self._extract_online_meeting_url(arg)
CallExtractOnlineMeetingUrl ==
    /\ pc = "call" /\ fn = "_extract_online_meeting_url"
    /\ ret' = ExtractOnlineMeetingUrl(arg)
    /\ pc' = "returned"
    /\ UNCHANGED <<conv, events, result, fn, arg, ret2, daemonVars>>

NextEvent == CallExtractOnlineMeetingUrl

SpecEvent == EventInit /\ [][NextEvent]_vars

\* the structured onlineMeeting.joinUrl of the event when it is present and
\* non-empty, else None
StructuredJoinUrl(event) ==
    IF /\ "onlineMeeting" \in DOMAIN event[2]
       /\ event[2]["onlineMeeting"][1] = "dict"
       /\ "joinUrl" \in DOMAIN event[2]["onlineMeeting"][2]
       /\ event[2]["onlineMeeting"][2]["joinUrl"][1] = "str"
       /\ event[2]["onlineMeeting"][2]["joinUrl"][2] # << >>
    THEN Some(event[2]["onlineMeeting"][2]["joinUrl"][2])
    ELSE None

\* the raw body content of the event when it is present and non-empty, else None
RawBodyContent(event) ==
    IF /\ "body" \in DOMAIN event[2]
       /\ event[2]["body"][1] = "dict"
       /\ "content" \in DOMAIN event[2]["body"][2]
       /\ event[2]["body"][2]["content"][1] = "str"
       /\ event[2]["body"][2]["content"][2] # << >>
    THEN Some(event[2]["body"][2]["content"][2])
    ELSE None

\* C5: the URL is the structured onlineMeeting.joinUrl whenever that is present
\* and non-empty, whatever the body holds; otherwise it is what
\* extract_meeting_url finds in the raw body content; it is None only when the
\* structured field is absent or empty and the body yields no URL.
C5_StructuredFieldFirst ==
    pc = "returned" =>
        LET structured == StructuredJoinUrl(arg)
            scanned == ExtractMeetingUrl(RawBodyContent(arg))
        IN  /\ structured # None => ret = structured
            /\ structured = None => ret = scanned
            /\ ret = None <=> (structured = None /\ scanned = None)

\* C5 witness: the event has a structured join URL and a body with a Teams
\* URL, and the structured join URL was returned.
C5_Witness ==
    /\ pc = "returned"
    /\ StructuredJoinUrl(arg) = Some(JoinUrl)
    /\ ExtractMeetingUrl(RawBodyContent(arg)) = Some(TeamsUrl)
    /\ ret = Some(JoinUrl)

(***************************************************************************)
(* preprocess_teams_html: thirteen re.sub rules applied in order.  A match *)
(* is described by a position: the (1-based) index of the next character   *)
(* to read, or 0 when the pattern does not match.                          *)
(***************************************************************************)
UpperLetters ==
    <<"A", "B", "C", "D", "E", "F", "G", "H", "I", "J", "K", "L", "M",
      "N", "O", "P", "Q", "R", "S", "T", "U", "V", "W", "X", "Y", "Z">>

LowerLetters ==
    <<"a", "b", "c", "d", "e", "f", "g", "h", "i", "j", "k", "l", "m",
      "n", "o", "p", "q", "r", "s", "t", "u", "v", "w", "x", "y", "z">>

\* [A-Z]
Upper == {UpperLetters[k] : k \in DOMAIN UpperLetters}

\* [a-z]
Lower == {LowerLetters[k] : k \in DOMAIN LowerLetters}

\* \d
Digits == {"0", "1", "2", "3", "4", "5", "6", "7", "8", "9"}

\* [a-zA-Z0-9]
AlphaNum == Upper \cup Lower \cup Digits

\* c.lower()
ToLower(c) ==
    IF c \in Upper
    THEN LowerLetters[CHOOSE k \in DOMAIN UpperLetters : UpperLetters[k] = c]
    ELSE c

\* s.lower(): what re.IGNORECASE compares
LowerStr(s) == [i \in 1..Len(s) |-> ToLower(s[i])]

\* a literal at position p
Lit(s, p, lit) == IF p # 0 /\ OccursAt(s, lit, p) THEN p + Len(lit) ELSE 0

\* S* at position p (greedy)
Star(s, p, S) == IF p = 0 THEN 0 ELSE p + RunLen(s, p, S)

\* S+ at position p (greedy)
Plus(s, p, S) == IF p # 0 /\ RunLen(s, p, S) >= 1 THEN p + RunLen(s, p, S) ELSE 0

\* S{n} at position p
Exactly(s, p, S, n) ==
    IF p # 0 /\ p + n - 1 <= Len(s) /\ \A k \in p..(p + n - 1) : s[k] \in S
    THEN p + n
    ELSE 0

\* [^>]*> at position p: up to and including the next ">"
ToTagEnd(s, p) ==
    IF p = 0 THEN 0
    ELSE LET gts == {k \in p..Len(s) : s[k] = ">"}
         IN  IF gts = {} THEN 0 ELSE Min(gts) + 1

RECURSIVE SubFrom(_, _, _, _)
SubFrom(s, ends, repl, i) ==
    LET starts == {j \in i..Len(s) : ends[j] # 0}
    IN  IF starts = {} THEN SubSeq(s, i, Len(s))
        ELSE LET j == Min(starts)
             IN  SubSeq(s, i, j - 1) \o repl \o SubFrom(s, ends, repl, ends[j])

\* re.sub(pattern, repl, s): ends[j] is the end of the match of the pattern
\* at position j (0 when there is none); matches are taken leftmost first
\* and do not overlap
ReSub(s, ends, repl) == SubFrom(s, ends, repl, 1)

\* re.sub(label, "", html, flags=re.IGNORECASE) for a literal label
RemoveLabel(html, label) ==
    LET ls == LowerStr(html)
    IN  ReSub(html, [i \in 1..Len(html) |-> Lit(ls, i, label)], << >>)

\* "<p"
POpen == <<"<", "p">>

\* "&nbsp;"
Nbsp == <<"&", "n", "b", "s", "p", ";">>

\* "</p>"
PClose == <<"<", "/", "p", ">">>

\* <p[^>]*>\s*&nbsp;\s*</p>
BlankParagraphEnd(html, ls, i) ==
    LET p1 == ToTagEnd(html, Lit(ls, i, POpen))
        p2 == Lit(ls, Star(html, p1, Whitespace), Nbsp)
    IN  Lit(ls, Star(html, p2, Whitespace), PClose)

\* remove empty paragraphs with just &nbsp;
RemoveBlankParagraphs(html) ==
    LET ls == LowerStr(html)
    IN  ReSub(html, [i \in 1..Len(html) |-> BlankParagraphEnd(html, ls, i)], << >>)

\* "<strong>"
StrongOpen == <<"<", "s", "t", "r", "o", "n", "g", ">">>

\* "</strong>"
StrongClose == <<"<", "/", "s", "t", "r", "o", "n", "g", ">">>

\* "Join on your computer"
JoinInstructions ==
    <<"j", "o", "i", "n", " ", "o", "n", " ", "y", "o", "u", "r", " ",
      "c", "o", "m", "p", "u", "t", "e", "r">>

\* "<p><strong>Microsoft Teams meeting</strong></p>"
TeamsMeetingParagraph ==
    <<"<", "p", ">", "<", "s", "t", "r", "o", "n", "g", ">", "M", "i",
      "c", "r", "o", "s", "o", "f", "t", " ", "T", "e", "a", "m", "s",
      " ", "m", "e", "e", "t", "i", "n", "g", "<", "/", "s", "t", "r",
      "o", "n", "g", ">", "<", "/", "p", ">">>

\* .*?</strong>\s*</p> at position p: the nearest place where the rest matches
JoinTail(html, ls, p) ==
    IF p = 0 THEN 0
    ELSE LET tails == {k \in p..Len(html) :
                          Lit(ls, Star(html, Lit(ls, k, StrongClose), Whitespace),
                              PClose) # 0}
         IN  IF tails = {} THEN 0
             ELSE Lit(ls, Star(html, Lit(ls, Min(tails), StrongClose), Whitespace),
                      PClose)

\* <p[^>]*>\s*<strong>\s*Join on your computer.*?</strong>\s*</p>
JoinParagraphEnd(html, ls, i) ==
    LET p1 == ToTagEnd(html, Lit(ls, i, POpen))
        p2 == Lit(ls, Star(html, p1, Whitespace), StrongOpen)
        p3 == Lit(ls, Star(html, p2, Whitespace), JoinInstructions)
    IN  JoinTail(html, ls, p3)

\* replace the paragraph containing the meeting join instructions
ReplaceJoinInstructions(html) ==
    LET ls == LowerStr(html)
    IN  ReSub(html, [i \in 1..Len(html) |-> JoinParagraphEnd(html, ls, i)],
              TeamsMeetingParagraph)

\* "Meeting ID:"
MeetingIdLabel == <<"m", "e", "e", "t", "i", "n", "g", " ", "i", "d", ":">>

\* "Passcode:"
PasscodeLabel == <<"p", "a", "s", "s", "c", "o", "d", "e", ":">>

\* "Phone Conference ID:"
PhoneConferenceIdLabel ==
    <<"p", "h", "o", "n", "e", " ", "c", "o", "n", "f", "e", "r", "e",
      "n", "c", "e", " ", "i", "d", ":">>

\* "Tenant key:"
TenantKeyLabel == <<"t", "e", "n", "a", "n", "t", " ", "k", "e", "y", ":">>

\* "Video ID:"
VideoIdLabel == <<"v", "i", "d", "e", "o", " ", "i", "d", ":">>

\* "@t.plcm.vc"
TenantKeyDomain == <<"@", "t", ".", "p", "l", "c", "m", ".", "v", "c">>

\* >\s*(\d{3}\s+\d{3}\s+\d{3}\s+\d{3})\s*<
MeetingIdNumberEnd(html, i) ==
    LET p1 == Exactly(html, Star(html, Lit(html, i, <<">">>), Whitespace), Digits, 3)
        p2 == Exactly(html, Plus(html, p1, Whitespace), Digits, 3)
        p3 == Exactly(html, Plus(html, p2, Whitespace), Digits, 3)
        p4 == Exactly(html, Plus(html, p3, Whitespace), Digits, 3)
    IN  Lit(html, Star(html, p4, Whitespace), <<"<">>)

\* (?=.*\d) at position p: a digit follows on the same line
DigitAhead(html, p) ==
    \E k \in p..Len(html) :
        /\ html[k] \in Digits
        /\ \A j \in p..(k - 1) : html[j] # "\n"

\* >\s*([A-Z](?=.*\d)[a-zA-Z0-9]{7})\s*<
PasscodeEnd(html, i) ==
    LET p1 == Exactly(html, Star(html, Lit(html, i, <<">">>), Whitespace), Upper, 1)
        p2 == IF p1 # 0 /\ DigitAhead(html, p1) THEN p1 ELSE 0
        p3 == Exactly(html, p2, AlphaNum, 7)
    IN  Lit(html, Star(html, p3, Whitespace), <<"<">>)

\* >\s*(\d{3}\s+\d{3}\s+\d{3}#)\s*<
PhoneNumberEnd(html, i) ==
    LET p1 == Exactly(html, Star(html, Lit(html, i, <<">">>), Whitespace), Digits, 3)
        p2 == Exactly(html, Plus(html, p1, Whitespace), Digits, 3)
        p3 == Exactly(html, Plus(html, p2, Whitespace), Digits, 3)
        p4 == Lit(html, p3, <<"#">>)
    IN  Lit(html, Star(html, p4, Whitespace), <<"<">>)

\* \d+@t\.plcm\.vc
TenantKeyEnd(html, ls, i) == Lit(ls, Plus(html, i, Digits), TenantKeyDomain)

\* >\s*(\d{3}\s+\d{3}\s+\d{3}\s+\d)\s*<
VideoIdNumberEnd(html, i) ==
    LET p1 == Exactly(html, Star(html, Lit(html, i, <<">">>), Whitespace), Digits, 3)
        p2 == Exactly(html, Plus(html, p1, Whitespace), Digits, 3)
        p3 == Exactly(html, Plus(html, p2, Whitespace), Digits, 3)
        p4 == Exactly(html, Plus(html, p3, Whitespace), Digits, 1)
    IN  Lit(html, Star(html, p4, Whitespace), <<"<">>)

\* the ID numbers that follow "Meeting ID:"
RemoveMeetingIdNumber(html) ==
    ReSub(html, [i \in 1..Len(html) |-> MeetingIdNumberEnd(html, i)], <<">", "<">>)

\* the passcode that follows "Passcode:"
RemovePasscode(html) ==
    ReSub(html, [i \in 1..Len(html) |-> PasscodeEnd(html, i)], <<">", "<">>)

\* phone number patterns like "719 224 215#"
RemovePhoneNumber(html) ==
    ReSub(html, [i \in 1..Len(html) |-> PhoneNumberEnd(html, i)], <<">", "<">>)

\* tenant key email patterns (numbers@t.plcm.vc)
RemoveTenantKey(html) ==
    LET ls == LowerStr(html)
    IN  ReSub(html, [i \in 1..Len(html) |-> TenantKeyEnd(html, ls, i)], << >>)

\* video ID patterns like "114 301 628 4"
RemoveVideoIdNumber(html) ==
    ReSub(html, [i \in 1..Len(html) |-> VideoIdNumberEnd(html, i)], <<">", "<">>)

\* "<div"
DivOpen == <<"<", "d", "i", "v">>

\* "</div>"
DivClose == <<"<", "/", "d", "i", "v", ">">>

\* "<a"
AOpen == <<"<", "a">>

\* "Download Teams</a>"
DownloadTeamsLink ==
    <<"d", "o", "w", "n", "l", "o", "a", "d", " ", "t", "e", "a", "m",
      "s", "<", "/", "a", ">">>

\* <div[^>]*>\s*<a[^>]*>Download Teams</a>.*?</div>
DownloadBlockEnd(html, ls, i) ==
    LET p1 == ToTagEnd(html, Lit(ls, i, DivOpen))
        p2 == ToTagEnd(html, Lit(ls, Star(html, p1, Whitespace), AOpen))
        p3 == Lit(ls, p2, DownloadTeamsLink)
        closes == {k \in p3..Len(html) : Lit(ls, k, DivClose) # 0}
    IN  IF p3 = 0 \/ closes = {} THEN 0 ELSE Min(closes) + Len(DivClose)

\* remove download teams / meeting options links
RemoveDownloadBlock(html) ==
    LET ls == LowerStr(html)
    IN  ReSub(html, [i \in 1..Len(html) |-> DownloadBlockEnd(html, ls, i)], << >>)

\* preprocess_teams_html(html)
PreprocessTeamsHtml(html) ==
    LET h1  == RemoveBlankParagraphs(html)
        h2  == ReplaceJoinInstructions(h1)
        h3  == RemoveLabel(h2, MeetingIdLabel)
        h4  == RemoveMeetingIdNumber(h3)
        h5  == RemoveLabel(h4, PasscodeLabel)
        h6  == RemovePasscode(h5)
        h7  == RemoveLabel(h6, PhoneConferenceIdLabel)
        h8  == RemovePhoneNumber(h7)
        h9  == RemoveLabel(h8, TenantKeyLabel)
        h10 == RemoveTenantKey(h9)
        h11 == RemoveLabel(h10, VideoIdLabel)
        h12 == RemoveVideoIdNumber(h11)
    IN  RemoveDownloadBlock(h12)

(***************************************************************************)
(* html.unescape, which HTMLParser applies to text and attribute values    *)
(* (convert_charrefs is on).  Characters outside ASCII are atoms: NBSP is  *)
(* U+00A0, UnicodeSpace any other non-ASCII space, Replacement U+FFFD and  *)
(* OtherChar any other character; the pipeline tells them apart no         *)
(* further.  Of the html5 table the model holds the references below.      *)
(***************************************************************************)
Replacement == "U+FFFD"

OtherChar == "U+OTHER"

\* the printable ASCII characters, code points 32..126
Ascii ==
    <<" ", "!", "\"", "#", "$", "%", "&", "'", "(", ")", "*", "+", ",",
      "-", ".", "/", "0", "1", "2", "3", "4", "5", "6", "7", "8", "9",
      ":", ";", "<", "=", ">", "?", "@", "A", "B", "C", "D", "E", "F",
      "G", "H", "I", "J", "K", "L", "M", "N", "O", "P", "Q", "R", "S",
      "T", "U", "V", "W", "X", "Y", "Z", "[", "\\", "]", "^", "_",
      Backtick, "a", "b", "c", "d", "e", "f", "g", "h", "i", "j", "k",
      "l", "m", "n", "o", "p", "q", "r", "s", "t", "u", "v", "w", "x",
      "y", "z", "{", "|", "}", "~">>

\* code points of the non-ASCII characters that are whitespace
UnicodeSpaceCodes ==
    {133, 5760, 8232, 8233, 8239, 8287, 12288} \cup (8192..8202)

\* html._invalid_codepoints
InvalidCodepoints ==
    (1..8) \cup {11} \cup (14..31) \cup (127..159) \cup (64976..65007)

\* chr(num) for a valid code point
Chr(num) ==
    IF num \in 32..126 THEN Ascii[num - 31]
    ELSE IF num = 9 THEN "\t"
    ELSE IF num = 10 THEN "\n"
    ELSE IF num = 12 THEN "\f"
    ELSE IF num = 160 THEN NBSP
    ELSE IF num \in UnicodeSpaceCodes THEN UnicodeSpace
    ELSE OtherChar

\* the replacement of the numeric reference num (_replace_charref)
NumericRef(num) ==
    IF num = 0 THEN <<Replacement>>
    ELSE IF num = 13 THEN <<"\r">>
    ELSE IF num \in 128..159 THEN <<OtherChar>>
    ELSE IF num \in 55296..57343 \/ num > 1114111 THEN <<Replacement>>
    ELSE IF num \in InvalidCodepoints \/ num % 65536 \in {65534, 65535} THEN << >>
    ELSE <<Chr(num)>>

HexLetters == <<"a", "b", "c", "d", "e", "f">>

\* [0-9a-fA-F]
HexDigits == Digits \cup {HexLetters[k] : k \in 1..6} \cup {UpperLetters[k] : k \in 1..6}

\* the value of one digit
DigitValue(d) ==
    IF d \in Digits THEN (CHOOSE k \in 1..10 : Ascii[16 + k] = d) - 1
    ELSE 9 + (CHOOSE k \in 1..6 : HexLetters[k] = ToLower(d))

RECURSIVE IntOf(_, _)
\* int(digits, base), kept below 2^24: any larger value is above 0x10FFFF
IntOf(digits, base) ==
    IF digits = << >> THEN 0
    ELSE LET hi == IntOf(SubSeq(digits, 1, Len(digits) - 1), base)
         IN  IF hi >= 1048576 THEN 16777215
             ELSE hi * base + DigitValue(digits[Len(digits)])

\* the html5 names the model holds; each is a reference with and without ";"
Html5Names ==
    {<<"a", "m", "p">>, <<"l", "t">>,
     <<"g", "t">>, <<"q", "u", "o", "t">>,
     <<"A", "M", "P">>, <<"L", "T">>,
     <<"G", "T">>, <<"Q", "U", "O", "T">>,
     <<"n", "b", "s", "p">>}

\* html5[name]
Html5Char(name) ==
    LET l == LowerStr(name)
    IN  CASE l = <<"a", "m", "p">> -> "&"
          [] l = <<"l", "t">> -> "<"
          [] l = <<"g", "t">> -> ">"
          [] l = <<"q", "u", "o", "t">> -> "\""
          [] l = <<"n", "b", "s", "p">> -> NBSP

\* s without a final ";"
WithoutSemicolon(s) ==
    IF s # << >> /\ s[Len(s)] = ";" THEN SubSeq(s, 1, Len(s) - 1) ELSE s

\* s in html5
InHtml5(s) == WithoutSemicolon(s) \in Html5Names

\* the replacement of the named reference s (_replace_charref): the whole
\* name, else the longest prefix of two or more characters that is a name
NamedRef(s) ==
    IF InHtml5(s) THEN <<Html5Char(WithoutSemicolon(s))>>
    ELSE LET xs == {x \in 2..(Len(s) - 1) : SubSeq(s, 1, x) \in Html5Names}
         IN  IF xs = {} THEN <<"&">> \o s
             ELSE <<Html5Char(SubSeq(s, 1, Max(xs)))>>
                      \o SubSeq(s, Max(xs) + 1, Len(s))

\* [^\t\n\f <&#;]
RefNameStop == {"\t", "\n", "\f", " ", "<", "&", "#", ";"}

\* ;? at position p
OptSemicolon(s, p) == IF p <= Len(s) /\ s[p] = ";" THEN p + 1 ELSE p

\* the match of &(#[0-9]+;?|#[xX][0-9a-fA-F]+;?|[^\t\n\f <&#;]{1,32};?) at the
\* "&" of position j: its end and its replacement, end 0 when there is none
CharRefAt(s, j) ==
    LET dec == RunLen(s, j + 2, Digits)
        hex == RunLen(s, j + 3, HexDigits)
        nam == Min({32, RunLenNot(s, j + 1, RefNameStop)})
    IN  IF j + 1 <= Len(s) /\ s[j + 1] = "#"
        THEN IF dec >= 1
             THEN [end  |-> OptSemicolon(s, j + 2 + dec),
                   repl |-> NumericRef(IntOf(SubSeq(s, j + 2, j + 1 + dec), 10))]
             ELSE IF j + 2 <= Len(s) /\ s[j + 2] \in {"x", "X"} /\ hex >= 1
             THEN [end  |-> OptSemicolon(s, j + 3 + hex),
                   repl |-> NumericRef(IntOf(SubSeq(s, j + 3, j + 2 + hex), 16))]
             ELSE [end |-> 0, repl |-> << >>]
        ELSE IF nam >= 1
        THEN [end  |-> OptSemicolon(s, j + 1 + nam),
              repl |-> NamedRef(SubSeq(s, j + 1, OptSemicolon(s, j + 1 + nam) - 1))]
        ELSE [end |-> 0, repl |-> << >>]

RECURSIVE UnescapeFrom(_, _)
UnescapeFrom(s, i) ==
    LET amps == {j \in i..Len(s) : s[j] = "&" /\ CharRefAt(s, j).end # 0}
    IN  IF amps = {} THEN SubSeq(s, i, Len(s))
        ELSE LET j == Min(amps)
                 m == CharRefAt(s, j)
             IN  SubSeq(s, i, j - 1) \o m.repl \o UnescapeFrom(s, m.end)

\* html.unescape(s)
Unescape(s) == UnescapeFrom(s, 1)

(***************************************************************************)
(* converter.feed(html_content): HTMLParser.goahead(end = False) over the  *)
(* whole text, delivering to the handlers above.  close() is never called, *)
(* so what goahead holds back at the end of the text is never delivered.   *)
(* Marked sections ("<![") are outside the model.                          *)
(***************************************************************************)
\* [a-zA-Z]
Letters == Upper \cup Lower

\* the complement of [^\t\n\r\f />\x00], which ends a tag name
TagNameStop == {"\t", "\n", "\r", "\f", " ", "/", ">"}

\* [-.a-zA-Z0-9:_], the name characters of endtagfind
EndTagNameChars == AlphaNum \cup {"-", ".", ":", "_"}

Quotes == {"'", "\""}

\* the first position from i on that holds a character of S, else 0
FindChar(s, i, S) ==
    LET ks == {k \in i..Len(s) : s[k] \in S}
    IN  IF ks = {} THEN 0 ELSE Min(ks)

\* the tags the handlers tell apart, as the parser reads them
TagChars ==
    [ p          |-> <<"p">>,
      h1         |-> <<"h", "1">>,
      h2         |-> <<"h", "2">>,
      h3         |-> <<"h", "3">>,
      h4         |-> <<"h", "4">>,
      h5         |-> <<"h", "5">>,
      h6         |-> <<"h", "6">>,
      br         |-> <<"b", "r">>,
      strong     |-> <<"s", "t", "r", "o", "n", "g">>,
      b          |-> <<"b">>,
      em         |-> <<"e", "m">>,
      i          |-> <<"i">>,
      code       |-> <<"c", "o", "d", "e">>,
      pre        |-> <<"p", "r", "e">>,
      a          |-> <<"a">>,
      ul         |-> <<"u", "l">>,
      ol         |-> <<"o", "l">>,
      li         |-> <<"l", "i">>,
      blockquote |-> <<"b", "l", "o", "c", "k", "q", "u", "o", "t", "e">>,
      hr         |-> <<"h", "r">>,
      table      |-> <<"t", "a", "b", "l", "e">>,
      tr         |-> <<"t", "r">>,
      td         |-> <<"t", "d">>,
      th         |-> <<"t", "h">>,
      style      |-> <<"s", "t", "y", "l", "e">>,
      script     |-> <<"s", "c", "r", "i", "p", "t">>,
      div        |-> <<"d", "i", "v">> ]

\* tag.lower() as the handlers see it; "span" stands for every other tag
TagOf(name) ==
    LET ts == {t \in DOMAIN TagChars : TagChars[t] = LowerStr(name)}
    IN  IF ts = {} THEN "span" ELSE CHOOSE t \in ts : TRUE

\* attrname.lower() as the handlers see it; "other" stands for every
\* attribute but href
AttrKey(name) ==
    IF LowerStr(name) = <<"h", "r", "e", "f">> THEN "href" ELSE "other"

\* dict(attrs): the last value of each name
AttrsDict(attrs) ==
    [k \in {AttrKey(attrs[n][1]) : n \in DOMAIN attrs} |->
        attrs[Max({n \in DOMAIN attrs : AttrKey(attrs[n][1]) = k})][2]]

\* (?:\s|/(?!>))* at position p
TrailingSkip(s, p) ==
    LET run == RunLen(s, p, Whitespace \cup {"/"})
        stops == {k \in p..(p + run - 1) :
                     s[k] = "/" /\ k + 1 <= Len(s) /\ s[k + 1] = ">"}
    IN  IF stops = {} THEN p + run ELSE Min(stops)

\* '[^']*' or "[^"]*" or (?!['"])[^>\s]* at position v: the end, 0 if none
ValueEnd(s, v) ==
    IF v <= Len(s) /\ s[v] \in Quotes
    THEN LET c == FindChar(s, v + 1, {s[v]})
         IN  IF c = 0 THEN 0 ELSE c + 1
    ELSE v + RunLenNot(s, v, Whitespace \cup {">"})

\* (\s*=+\s*(value))? at position q, as the regex engine backtracks: the
\* start and the end of the value, end 0 when the group does not match
ValueAt(s, q) ==
    LET e0  == q + RunLen(s, q, Whitespace)
        eqn == RunLen(s, e0, {"="})
        e1  == e0 + eqn
        wsn == RunLen(s, e1, Whitespace)
        v   == e1 + wsn
    IN  IF eqn = 0 THEN [start |-> 0, end |-> 0]
        ELSE IF ValueEnd(s, v) # 0 THEN [start |-> v, end |-> ValueEnd(s, v)]
        ELSE IF wsn >= 1 THEN [start |-> v - 1, end |-> v - 1]
        ELSE IF eqn >= 2
        THEN [start |-> e1 - 1,
              end   |-> e1 - 1 + RunLenNot(s, e1 - 1, Whitespace \cup {">"})]
        ELSE [start |-> 0, end |-> 0]

\* the attribute value handed to handle_starttag: quotes removed, unescaped
AttrValue(raw) ==
    IF Len(raw) >= 1 /\ raw[1] \in Quotes /\ raw[Len(raw)] = raw[1]
    THEN Unescape(SubSeq(raw, 2, Len(raw) - 1))
    ELSE Unescape(raw)

\* attrfind_tolerant.match(rawdata, p): whether it matches, the attribute
\* and the position after it
AttrAt(s, p) ==
    LET ok == /\ p >= 2 /\ p <= Len(s)
              /\ s[p - 1] \in Quotes \cup Whitespace \cup {"/"}
              /\ s[p] \notin Whitespace \cup {"/", ">"}
        q  == p + 1 + RunLenNot(s, p + 1, Whitespace \cup {"/", "=", ">"})
        m  == ValueAt(s, q)
    IN  IF ~ok THEN [ok |-> FALSE, next |-> p, attr |-> << >>]
        ELSE [ok   |-> TRUE,
              next |-> TrailingSkip(s, IF m.end = 0 THEN q ELSE m.end),
              attr |-> <<SubSeq(s, p, q - 1),
                         IF m.end = 0 THEN None
                         ELSE Some(AttrValue(SubSeq(s, m.start, m.end - 1)))>>]

RECURSIVE AttrScan(_, _, _)
\* the attribute loop of parse_starttag from position p on
AttrScan(s, p, attrs) ==
    LET m == AttrAt(s, p)
    IN  IF m.ok THEN AttrScan(s, m.next, Append(attrs, m.attr))
        ELSE [pos |-> p, attrs |-> attrs]

\* the end of parse_starttag: started is the converter after handle_starttag
\* and a the position after the attributes.  The result is the converter
\* afterwards, the position to go on from (0: the tag is not whole, goahead
\* stops) and the CDATA element entered ("" for none)
StartTagResult(c, started, s, i, tag, a) ==
    IF a <= Len(s) /\ s[a] = ">"
    THEN [conv  |-> started, k |-> a + 1,
          cdata |-> IF tag \in {"script", "style"} THEN tag ELSE ""]
    ELSE IF OccursAt(s, <<"/", ">">>, a)
    THEN [conv |-> HandleEndTag(started, tag), k |-> a + 2, cdata |-> ""]
    ELSE IF a > Len(s) \/ s[a] \in Letters \cup {"=", "/"}
    THEN [conv |-> c, k |-> 0, cdata |-> ""]
    ELSE [conv |-> HandleData(c, SubSeq(s, i, a - 1)), k |-> a, cdata |-> ""]

\* the tag and the attributes of parse_starttag, the name ending at nameEnd
StartTagParsed(c, s, i, tag, scan) ==
    StartTagResult(c, HandleStartTag(c, tag, AttrsDict(scan.attrs)), s, i, tag,
                   scan.pos)

\* parse_starttag at the "<" of position i
ParseStartTag(c, s, i) ==
    LET nameEnd == i + 1 + RunLenNot(s, i + 1, TagNameStop)
    IN  StartTagParsed(c, s, i, TagOf(SubSeq(s, i + 1, nameEnd - 1)),
                       AttrScan(s, TrailingSkip(s, nameEnd), << >>))

\* the end of parse_endtag: gt is the position of the next ">", name the tag
\* name when there is one
EndTagResult(c, gt, name) ==
    IF gt = 0 THEN [conv |-> c, k |-> 0, cdata |-> ""]
    ELSE IF name = << >> THEN [conv |-> c, k |-> gt + 1, cdata |-> ""]
    ELSE [conv |-> HandleEndTag(c, TagOf(name)), k |-> gt + 1, cdata |-> ""]

\* the name of the end tag at the "</" of position i: that of endtagfind,
\* else that of tagfind_tolerant, else none
EndTagName(s, i) ==
    LET p == i + 2 + RunLen(s, i + 2, Whitespace)
        q == p + RunLen(s, p, EndTagNameChars)
        r == q + RunLen(s, q, Whitespace)
    IN  IF p <= Len(s) /\ s[p] \in Letters /\ r <= Len(s) /\ s[r] = ">"
        THEN SubSeq(s, p, q - 1)
        ELSE IF i + 2 <= Len(s) /\ s[i + 2] \in Letters
        THEN SubSeq(s, i + 2, i + 1 + RunLenNot(s, i + 2, TagNameStop))
        ELSE << >>

\* parse_endtag at the "</" of position i, outside CDATA content
ParseEndTag(c, s, i) ==
    EndTagResult(c, FindChar(s, i + 2, {">"}), EndTagName(s, i))

\* --\s*> at position p
CommentCloseEnd(s, p) ==
    Lit(s, Star(s, Lit(s, p, <<"-", "-">>), Whitespace), <<">">>)

\* [-_.a-zA-Z0-9], the characters of a declaration name after its first letter
DeclNameChars == AlphaNum \cup {"-", "_", "."}

\* the keywords of a marked section that ends with "]]>"
MarkedSectionKeywords ==
    {<<"t", "e", "m", "p">>, <<"c", "d", "a", "t", "a">>,
     <<"i", "g", "n", "o", "r", "e">>, <<"i", "n", "c", "l", "u", "d", "e">>,
     <<"r", "c", "d", "a", "t", "a">>}

\* the keywords of a marked section that ends with "]>"
MsMarkedSectionKeywords ==
    {<<"i", "f">>, <<"e", "l", "s", "e">>, <<"e", "n", "d", "i", "f">>}

\* ]\s*]\s*> at position p
MarkedSectionCloseEnd(s, p) ==
    Lit(s, Star(s, Lit(s, Star(s, Lit(s, p, <<"]">>), Whitespace), <<"]">>),
                Whitespace), <<">">>)

\* ]\s*> at position p
MsMarkedSectionCloseEnd(s, p) ==
    Lit(s, Star(s, Lit(s, p, <<"]">>), Whitespace), <<">">>)

\* the end of the first close of the section from position i on, 0 when
\* there is none
MarkedSectionClose(s, i, name) ==
    LET closes == {k \in i..Len(s) :
                      IF name \in MarkedSectionKeywords
                      THEN MarkedSectionCloseEnd(s, k) # 0
                      ELSE MsMarkedSectionCloseEnd(s, k) # 0}
    IN  IF closes = {} THEN 0
        ELSE IF name \in MarkedSectionKeywords
        THEN MarkedSectionCloseEnd(s, Min(closes))
        ELSE MsMarkedSectionCloseEnd(s, Min(closes))

\* parse_marked_section, the name from position n to e - 1: the position
\* after the section, 0 when it is not whole, -1 when AssertionError is
\* raised (no name, or an unknown keyword)
MarkedSectionNamed(s, n, e) ==
    IF n > Len(s) THEN 0
    ELSE IF s[n] \notin Letters THEN -1
    ELSE IF e + RunLen(s, e, Whitespace) > Len(s) THEN 0
    ELSE IF LowerStr(SubSeq(s, n, e - 1))
                \in MarkedSectionKeywords \cup MsMarkedSectionKeywords
    THEN MarkedSectionClose(s, n, LowerStr(SubSeq(s, n, e - 1)))
    ELSE -1

\* parse_marked_section at the "<![" of position i
ParseMarkedSection(s, i) ==
    MarkedSectionNamed(s, i + 3, i + 3 + RunLen(s, i + 3, DeclNameChars))

\* parse_comment, parse_pi, parse_html_declaration at the "<" of position i:
\* the position after the construct, 0 when it is not whole, -1 when
\* AssertionError is raised
ParseDeclaration(s, i) ==
    LET closes == {k \in (i + 4)..Len(s) : CommentCloseEnd(s, k) # 0}
        gt     == FindChar(s, i + 2, {">"})
    IN  IF OccursAt(s, <<"<", "!", "-", "-">>, i)
        THEN IF closes = {} THEN 0 ELSE CommentCloseEnd(s, Min(closes))
        ELSE IF OccursAt(s, <<"<", "!", "[">>, i) THEN ParseMarkedSection(s, i)
        ELSE IF gt = 0 THEN 0
        ELSE gt + 1

\* </\s*elem\s*> at position j, whatever the case of the letters
CdataCloseEnd(s, ls, j, elem) ==
    LET p == Lit(ls, Star(s, Lit(s, j, <<"<", "/">>), Whitespace), TagChars[elem])
    IN  Lit(s, Star(s, p, Whitespace), <<">">>)

\* the first position from i on where the end tag of elem stands, else 0
FindCdataClose(s, i, elem) ==
    LET closes == {j \in i..Len(s) : CdataCloseEnd(s, LowerStr(s), j, elem) # 0}
    IN  IF closes = {} THEN 0 ELSE Min(closes)

\* whether goahead holds the text from i on back: an "&" among its last 34
\* characters with no whitespace and no ";" after it
HeldBack(s, i) ==
    \E j \in Max({i, Len(s) - 33})..Len(s) :
        /\ s[j] = "&"
        /\ \A k \in (j + 1)..Len(s) : s[k] # "&"
        /\ \A k \in j..Len(s) : s[k] \notin Whitespace \cup {";"}

\* what feed() leaves when the parser raises AssertionError: the exception
\* in place of the converter
Raised == [raised |-> "AssertionError"]

RECURSIVE Goahead(_, _, _, _)

\* goahead after a construct: r.k is the position to go on from, 0 to stop,
\* -1 when the construct raised
GoOn(c, s, r) ==
    IF r.k = 0 THEN c
    ELSE IF r.k < 0 THEN Raised
    ELSE Goahead(r.conv, s, r.k, r.cdata)

\* goahead at the "<" of position lt, the text before it delivered
Markup(c, s, lt) ==
    IF lt + 1 <= Len(s) /\ s[lt + 1] \in Letters
    THEN GoOn(c, s, ParseStartTag(c, s, lt))
    ELSE IF OccursAt(s, <<"<", "/">>, lt)
    THEN GoOn(c, s, ParseEndTag(c, s, lt))
    ELSE IF lt + 1 <= Len(s) /\ s[lt + 1] \in {"!", "?"}
    THEN GoOn(c, s, [conv |-> c, k |-> ParseDeclaration(s, lt), cdata |-> ""])
    ELSE IF lt + 1 <= Len(s)
    THEN Goahead(HandleData(c, <<"<">>), s, lt + 1, "")
    ELSE c

\* goahead from position i on, the next "<" being at lt (0: there is none)
TextThenMarkup(c, s, i, lt) ==
    IF lt = 0
    THEN IF HeldBack(s, i) THEN c
         ELSE HandleData(c, Unescape(SubSeq(s, i, Len(s))))
    ELSE Markup(IF i < lt THEN HandleData(c, Unescape(SubSeq(s, i, lt - 1))) ELSE c,
                s, lt)

\* goahead inside the CDATA content of elem from position i on, its end tag
\* being at j (0: there is none)
CdataThenClose(c, s, i, j, elem) ==
    IF j = 0 THEN c
    ELSE Goahead(HandleEndTag(IF i < j THEN HandleData(c, SubSeq(s, i, j - 1)) ELSE c,
                              elem),
                 s, CdataCloseEnd(s, LowerStr(s), j, elem), "")

\* goahead from position i on, cdata being self.cdata_elem ("" for None)
Goahead(c, s, i, cdata) ==
    IF i > Len(s) THEN c
    ELSE IF cdata # "" THEN CdataThenClose(c, s, i, FindCdataClose(s, i, cdata), cdata)
    ELSE TextThenMarkup(c, s, i, FindChar(s, i, {"<"}))

\* converter.feed(rawdata) on a new parser
Feed(c, rawdata) == Goahead(c, rawdata, 1, "")

\* the exception html_to_markdown lets through, in place of the str it
\* returns
AssertionError == <<"AssertionError">>

\* converter.get_markdown() after converter.feed(...), fed being what feed
\* left
MarkdownOf(fed) == IF fed = Raised THEN AssertionError ELSE GetMarkdown(fed)

\* html_to_markdown(html_content), html_content being a str or None
HtmlToMarkdown(html_content) ==
    IF html_content = None \/ html_content[1] = << >> THEN << >>
    ELSE MarkdownOf(Feed(NewConverter, PreprocessTeamsHtml(html_content[1])))

(***************************************************************************)
(* html_to_markdown called on short texts.                                 *)
(***************************************************************************)
MaxTextPieces == 3

\* "Meeting ID:"
MeetingIdText == <<"M", "e", "e", "t", "i", "n", "g", " ", "I", "D", ":">>

\* plain words, whitespace, an ampersand, a Teams label, a tag and an entity
TextPieces ==
    {<<"a">>, <<"T">>, <<"4", "2">>, <<" ">>, <<"\n">>, <<"&">>, <<";">>,
     MeetingIdText, <<"<", "b", ">">>, <<"&", "a", "m", "p", ";">>}

TextInit ==
    /\ NoFeed
    /\ conv = NewConverter
    /\ pc = "call"
    /\ fn = "html_to_markdown"
    /\ arg \in {None} \cup {Some(t) : t \in TextsOf(TextPieces, MaxTextPieces)}
    /\ ret = None
    /\ ret2 = None

\* html_to_markdown(arg): conv is the converter the call creates
CallHtmlToMarkdown ==
    /\ pc = "call" /\ fn = "html_to_markdown"
    /\ conv' = IF HtmlToMarkdown(arg) = AssertionError THEN conv
               ELSE IF arg = None \/ arg[1] = << >> THEN conv
               ELSE Feed(NewConverter, PreprocessTeamsHtml(arg[1]))
    /\ ret' = IF HtmlToMarkdown(arg) = AssertionError THEN ret
              ELSE Some(HtmlToMarkdown(arg))
    /\ pc' = IF HtmlToMarkdown(arg) = AssertionError THEN "raised" ELSE "returned"
    /\ UNCHANGED <<events, result, fn, arg, ret2, daemonVars>>

NextText == CallHtmlToMarkdown

SpecText == TextInit /\ [][NextText]_vars

\* an HTML-free plain text: no "<" and no character reference
IsPlainText(s) ==
    /\ \A k \in 1..Len(s) : s[k] # "<"
    /\ \A k \in 1..Len(s) : s[k] = "&" => CharRefAt(s, k).repl = SubSeq(s, k, CharRefAt(s, k).end - 1)

\* s with each run of whitespace collapsed to one space and without leading
\* and trailing whitespace
Normalized(s) == Strip(CollapseWhitespace(s))

\* C7: for every HTML-free plain text (no tags, no entities) html_to_markdown
\* returns the text with each run of whitespace collapsed to one space and
\* leading and trailing whitespace removed, and changes nothing else.
C7_PlainTextPreserved ==
    (pc = "returned" /\ fn = "html_to_markdown" /\ arg # None /\ IsPlainText(arg[1]))
        => ret = Some(Normalized(arg[1]))

\* what does hold: a plain text that holds no "&" and nothing the
\* preprocessor strips comes back normalized
PlainTextWithoutAmpersandOrLabel ==
    (/\ pc = "returned" /\ fn = "html_to_markdown" /\ arg # None
     /\ IsPlainText(arg[1])
     /\ \A k \in 1..Len(arg[1]) : arg[1][k] # "&"
     /\ PreprocessTeamsHtml(arg[1]) = arg[1])
        => ret = Some(Normalized(arg[1]))

\* a plain text with an ampersand that is followed by whitespace or ";" is
\* delivered whole
PlainTextAmpersandDelivered ==
    (/\ pc = "returned" /\ fn = "html_to_markdown" /\ arg # None
     /\ IsPlainText(arg[1])
     /\ ~HeldBack(arg[1], 1)
     /\ PreprocessTeamsHtml(arg[1]) = arg[1])
        => ret = Some(Normalized(arg[1]))

(***************************************************************************)
(* SpecStray: documents of inline, list and table tags, where an end tag   *)
(* may arrive with no element of its name open.                            *)
(***************************************************************************)
MaxStrayEvents == 3

StrayTags == {"b", "em", "a", "code", "pre", "li", "tr", "ul"}

NextStray ==
    \/ \E tag \in StrayTags : Len(events) < MaxStrayEvents /\ StartTag(tag, NoAttrs)
    \/ \E tag \in StrayTags : Len(events) < MaxStrayEvents /\ EndTag(tag)
    \/ Len(events) < MaxStrayEvents /\ Data(PlainText)
    \/ Finish

SpecStray == FeedInit /\ [][NextStray]_vars

RECURSIVE OpenCount(_, _)
\* the number of elements named tag that are open after the events evs: a
\* start tag opens one, an end tag closes one if any is open
OpenCount(evs, tag) ==
    IF evs = << >> THEN 0
    ELSE LET n == OpenCount(SubSeq(evs, 1, Len(evs) - 1), tag)
             e == evs[Len(evs)]
         IN  IF e.kind = "start" /\ e.tag = tag THEN n + 1
             ELSE IF e.kind = "end" /\ e.tag = tag /\ n > 0 THEN n - 1
             ELSE n

\* the step delivers an end tag while no element of its name is open
StrayEndStep ==
    \E tag \in StrayTags :
        /\ events' = Append(events, EndEv(tag))
        /\ OpenCount(events, tag) = 0

\* C11: an end tag that arrives when no matching element is open is ignored:
\* it changes neither the parser state nor the output buffer.
C11_StrayEndTagIgnored == [][StrayEndStep => conv' = conv]_vars

\* what does hold: a stray end tag changes no field but the output buffer
StrayEndTagKeepsParserState ==
    [][StrayEndStep => conv' = [conv EXCEPT !.output = conv'.output]]_vars

(***************************************************************************)
(* list_stack over the documents of SpecList.                              *)
(***************************************************************************)
\* s without its last element, s itself when it is empty
ButLast(s) == IF s = << >> THEN s ELSE SubSeq(s, 1, Len(s) - 1)

\* list_stack after the event e arrived with the events evs before it, as the
\* claim states it
ListStackAfter(stack, evs, e) ==
    IF RegionOpen(evs) \/ e.tag \notin {"ul", "ol"} THEN stack
    ELSE IF e.kind = "start" THEN Append(stack, e.tag)
    ELSE IF e.kind = "end" THEN ButLast(stack)
    ELSE stack

\* C12: list_stack stays balanced: outside a skip region a ul/ol start tag
\* pushes one entry of its kind and a ul/ol end tag pops one entry if there is
\* one and leaves an empty stack empty; no other event changes list_stack.
C12_ListStackBalanced ==
    [][IF events' = events THEN conv'.list_stack = conv.list_stack
       ELSE conv'.list_stack =
                ListStackAfter(conv.list_stack, events, events'[Len(events')])]_vars

\* C12 witness: a ul was pushed, an ol start tag inside a style region pushed
\* nothing, and after the region the ol end tag popped the ul entry.
C12_Witness ==
    /\ events = <<StartEv("ul", NoAttrs), StartEv("style", NoAttrs),
                  StartEv("ol", NoAttrs), EndEv("style"), EndEv("ol")>>
    /\ conv.list_stack = << >>

(***************************************************************************)
(* SpecRule: one substitution rule of preprocess_teams_html applied to a   *)
(* text, and then applied again to its own output.                         *)
(***************************************************************************)
MaxRulePieces == 4

\* the rules, in the order of preprocess_teams_html
RuleNames ==
    {"blank paragraph", "join instructions", "Meeting ID:", "Meeting ID number",
     "Passcode:", "passcode", "Phone Conference ID:", "phone number",
     "Tenant key:", "tenant key", "Video ID:", "Video ID number",
     "download block"}

\* the re.sub of the rule applied to html
ApplyRule(rule, html) ==
    CASE rule = "blank paragraph" -> RemoveBlankParagraphs(html)
      [] rule = "join instructions" -> ReplaceJoinInstructions(html)
      [] rule = "Meeting ID:" -> RemoveLabel(html, MeetingIdLabel)
      [] rule = "Meeting ID number" -> RemoveMeetingIdNumber(html)
      [] rule = "Passcode:" -> RemoveLabel(html, PasscodeLabel)
      [] rule = "passcode" -> RemovePasscode(html)
      [] rule = "Phone Conference ID:" -> RemoveLabel(html, PhoneConferenceIdLabel)
      [] rule = "phone number" -> RemovePhoneNumber(html)
      [] rule = "Tenant key:" -> RemoveLabel(html, TenantKeyLabel)
      [] rule = "tenant key" -> RemoveTenantKey(html)
      [] rule = "Video ID:" -> RemoveLabel(html, VideoIdLabel)
      [] rule = "Video ID number" -> RemoveVideoIdNumber(html)
      [] rule = "download block" -> RemoveDownloadBlock(html)

\* a label, its first four characters, the rest of it, and a letter
LabelPieces(label) ==
    {label, SubSeq(label, 1, 4), SubSeq(label, 5, Len(label)), <<"x">>}

\* ">", "<", a number and a space
NumberPieces(number) == {<<">">>, <<"<">>, number, <<" ">>}

\* the pieces of text the rule tells apart
RulePieces(rule) ==
    CASE rule = "blank paragraph" ->
            {<<"<", "p", ">">>,
         <<"<", "p", ">", "&", "n", "b", "s", "p", ";", "<", "/", "p", ">">>,
         <<"&", "n", "b", "s", "p", ";">>,
         <<"<", "/", "p", ">">>,
         <<" ">>}
      [] rule = "join instructions" ->
            {<<"<", "p", ">", "<", "s", "t", "r", "o", "n", "g", ">">>,
             <<"J", "o", "i", "n", " ", "o", "n", " ", "y", "o", "u", "r",
               " ", "c", "o", "m", "p", "u", "t", "e", "r">>,
             <<"<", "/", "s", "t", "r", "o", "n", "g", ">", "<", "/", "p",
               ">">>,
             <<"<", "/", "s", "t", "r", "o", "n", "g", ">">>,
             <<"<", "/", "p", ">">>,
             <<"<", "p">>,
             <<"x">>}
      [] rule = "Meeting ID:" -> LabelPieces(MeetingIdLabel)
      [] rule = "Meeting ID number" ->
            NumberPieces(<<"1", "2", "3", " ", "4", "5", "6", " ", "7", "8", "9", " ",
                        "0", "1", "2">>)
      [] rule = "Passcode:" -> LabelPieces(PasscodeLabel)
      [] rule = "passcode" ->
            {<<">", "A", "b", "c", "d", "e", "f", "g", "h", "<">>,
         <<">", "\n", "A", "b", "3", "d", "E", "f", "7", "h", "<">>,
         <<">", "1", "2", "3", "4", "5", "6", "7", "8", "<">>,
         <<"7">>,
         <<"\n">>}
      [] rule = "Phone Conference ID:" -> LabelPieces(PhoneConferenceIdLabel)
      [] rule = "phone number" ->
            NumberPieces(<<"1", "2", "3", " ", "4", "5", "6", " ", "7", "8", "9", "#">>)
      [] rule = "Tenant key:" -> LabelPieces(TenantKeyLabel)
      [] rule = "tenant key" ->
            {<<"9">> \o TenantKeyDomain, <<"9">> \o SubSeq(TenantKeyDomain, 1, 4),
             SubSeq(TenantKeyDomain, 5, Len(TenantKeyDomain)), <<"x">>}
      [] rule = "Video ID:" -> LabelPieces(VideoIdLabel)
      [] rule = "Video ID number" ->
            NumberPieces(<<"1", "2", "3", " ", "4", "5", "6", " ", "7", "8", "9", " ",
                        "4">>)
      [] rule = "download block" ->
            {<<"<", "d", "i", "v", ">", "<", "a", ">", "D", "o", "w", "n",
               "l", "o", "a", "d", " ", "T", "e", "a", "m", "s", "<", "/",
               "a", ">", "<", "/", "d", "i", "v", ">">>,
             <<"<", "d", "i", "v", ">", "<", "a", ">", "D", "o", "w", "n",
               "l", "o", "a", "d", " ", "T", "e", "a", "m", "s", "<", "/",
               "a", ">">>,
             <<"<", "/", "d", "i", "v", ">">>,
             <<"<", "d", "i">>,
             <<"v", ">", "<", "a", ">", "D", "o", "w", "n", "l", "o", "a",
               "d", " ", "T", "e", "a", "m", "s", "<", "/", "a", ">", "<",
               "/", "d", "i", "v", ">">>,
             <<"x">>}

RuleInit ==
    /\ NoFeed
    /\ conv = NewConverter
    /\ pc = "call"
    /\ fn \in RuleNames
    /\ arg \in TextsOf(RulePieces(fn), MaxRulePieces)
    /\ ret = None
    /\ ret2 = None

\* html = re.sub(...): the rule fn applied to arg
CallRule ==
    /\ pc = "call" /\ fn \in RuleNames
    /\ ret' = Some(ApplyRule(fn, arg))
    /\ pc' = "returned"
    /\ UNCHANGED <<conv, events, result, fn, arg, ret2, daemonVars>>

\* the same rule applied to its own output
CallRuleAgain ==
    /\ pc = "returned" /\ fn \in RuleNames
    /\ ret2' = Some(ApplyRule(fn, ret[1]))
    /\ pc' = "twice"
    /\ UNCHANGED <<conv, events, result, fn, arg, ret, daemonVars>>

NextRule == CallRule \/ CallRuleAgain

SpecRule == RuleInit /\ [][NextRule]_vars

\* C13: each substitution rule of the preprocessor is idempotent: applying
\* it to its own output changes nothing.
C13_RulesIdempotent == (pc = "twice" /\ fn \in RuleNames) => ret2 = ret

\* the rules whose second application changes nothing on the texts above
IdempotentRules ==
    {"join instructions", "Meeting ID number", "phone number", "Video ID number"}

\* what does hold: the join-instruction rule and the three number rules are
\* idempotent
SomeRulesIdempotent == (pc = "twice" /\ fn \in IdempotentRules) => ret2 = ret

(***************************************************************************)
(* SpecMeet: html_to_markdown called on a Teams body: the join-instruction *)
(* boilerplate, a "Meeting ID:" line with a space-grouped digit sequence,  *)
(* and a join link.                                                        *)
(***************************************************************************)
MaxGroups == 4

\* "<p><strong>Join on your computer</strong></p>"
JoinBlock ==
    <<"<", "p", ">", "<", "s", "t", "r", "o", "n", "g", ">", "J", "o", "i",
      "n", " ", "o", "n", " ", "y", "o", "u", "r", " ", "c", "o", "m", "p",
      "u", "t", "e", "r", "<", "/", "s", "t", "r", "o", "n", "g", ">", "<",
      "/", "p", ">">>

\* the join link of the body
JoinLink ==
    <<"<", "a", " ", "h", "r", "e", "f", "=", "\"", "h", "t", "t", "p",
      "s", ":", "/", "/", "t", ".", "c", "o", "/", "j", "\"", ">", "J",
      "o", "i", "n", "<", "/", "a", ">">>

\* what the join link renders as
JoinLinkMarkdown ==
    <<"[", "J", "o", "i", "n", "]", "(", "h", "t", "t", "p", "s", ":", "/",
      "/", "t", ".", "c", "o", "/", "j", ")">>

\* what the join-instruction boilerplate renders as
PlatformLine ==
    <<"*", "*", "M", "i", "c", "r", "o", "s", "o", "f", "t", " ", "T", "e",
      "a", "m", "s", " ", "m", "e", "e", "t", "i", "n", "g", "*", "*">>

\* groups of three digits, and a single digit
GroupTokens == {<<"1", "2", "3">>, <<"4", "5", "6">>, <<"7">>}

RECURSIVE SpaceGrouped(_)
\* " ".join(groups)
SpaceGrouped(groups) ==
    IF groups = << >> THEN << >>
    ELSE IF Len(groups) = 1 THEN groups[1]
    ELSE groups[1] \o <<" ">> \o SpaceGrouped(Tail(groups))

\* the ID tokens: one to MaxGroups groups
GroupSeqs == UNION {[1..k -> GroupTokens] : k \in 1..MaxGroups}

\* the line in a div, or the digits in a span of their own
Wrappers == {"div", "span"}

\* the "Meeting ID:" line
MeetingIdLine(groups, wrapper) ==
    IF wrapper = "div"
    THEN <<"<", "d", "i", "v", ">">> \o MeetingIdText \o <<" ">>
         \o SpaceGrouped(groups) \o <<"<", "/", "d", "i", "v", ">">>
    ELSE <<"<", "p", ">">> \o MeetingIdText \o <<" ">>
         \o <<"<", "s", "p", "a", "n", ">">> \o SpaceGrouped(groups)
         \o <<"<", "/", "s", "p", "a", "n", ">", "<", "/", "p", ">">>

\* the body: boilerplate, Meeting ID line, join link
MeetingBody(groups, wrapper) ==
    JoinBlock \o MeetingIdLine(groups, wrapper) \o JoinLink

MeetInit ==
    /\ NoFeed
    /\ conv = NewConverter
    /\ pc = "call"
    /\ fn = "html_to_markdown"
    /\ arg \in {Some(MeetingBody(g, w)) : g \in GroupSeqs, w \in Wrappers}
    /\ ret = None
    /\ ret2 = None

SpecMeet == MeetInit /\ [][NextText]_vars

\* sub in s
Contains(s, sub) == \E i \in 1..(Len(s) + 1) : OccursAt(s, sub, i)

\* sub in s, letter case ignored
ContainsIgnoreCase(s, sub) == Contains(LowerStr(s), LowerStr(sub))

\* C14: for a body with the join-instruction boilerplate, a "Meeting ID:"
\* line and a join link, the output holds the bolded platform line and the
\* join link and holds neither the label nor the digit sequence, for any
\* number of digit groups.
C14_MeetingIdStripped ==
    \A g \in GroupSeqs, w \in Wrappers :
        (pc = "returned" /\ arg = Some(MeetingBody(g, w)))
            => /\ Contains(ret[1], PlatformLine)
               /\ Contains(ret[1], JoinLinkMarkdown)
               /\ ~ContainsIgnoreCase(ret[1], MeetingIdText)
               /\ ~Contains(ret[1], SpaceGrouped(g))

\* the ID tokens the number rules match: three groups of three digits and
\* a fourth group of three digits or of one digit
IsFourGroups(g) ==
    /\ Len(g) = 4
    /\ \A k \in 1..3 : Len(g[k]) = 3

\* what does hold: the platform line and the join link are in the output,
\* the label is not, and the digit sequence is absent exactly when it has
\* four groups as above
MeetingIdStrippedForFourGroups ==
    \A g \in GroupSeqs, w \in Wrappers :
        (pc = "returned" /\ arg = Some(MeetingBody(g, w)))
            => /\ Contains(ret[1], PlatformLine)
               /\ Contains(ret[1], JoinLinkMarkdown)
               /\ ~ContainsIgnoreCase(ret[1], MeetingIdText)
               /\ ~Contains(ret[1], SpaceGrouped(g)) <=> IsFourGroups(g)

(***************************************************************************)
(* The passcode rule on tokens of letters only, of digits only, and of     *)
(* both (SpecRule, fn = "passcode").                                       *)
(***************************************************************************)
\* an eight-character token of letters only, between ">" and "<"
LettersOnlyToken == <<">", "A", "b", "c", "d", "e", "f", "g", "h", "<">>

\* an eight-character token of digits only, between ">" and "<"
DigitsOnlyToken == <<">", "1", "2", "3", "4", "5", "6", "7", "8", "<">>

\* an eight-character token of letters and digits, between ">" and "<"
MixedToken == <<">", "\n", "A", "b", "3", "d", "E", "f", "7", "h", "<">>

\* the number of places where sub occurs in s
Count(s, sub) == Cardinality({i \in 1..Len(s) : OccursAt(s, sub, i)})

\* C15: the passcode rule removes a token only when the token itself holds
\* at least one digit and at least one letter: a token of letters only or
\* of digits only is never removed.
C15_PasscodeNeedsDigitAndLetter ==
    (pc = "returned" /\ fn = "passcode")
        => /\ Count(ret[1], LettersOnlyToken) = Count(arg, LettersOnlyToken)
           /\ Count(ret[1], DigitsOnlyToken) = Count(arg, DigitsOnlyToken)

\* what does hold: a token of digits only is never removed
DigitsOnlyTokenKept ==
    (pc = "returned" /\ fn = "passcode")
        => Count(ret[1], DigitsOnlyToken) = Count(arg, DigitsOnlyToken)

\* what does hold: a token of letters only stays when no digit stands after
\* it on its line (here: no digit in the text after the token's first place)
LettersOnlyTokenKeptWithoutDigitAfter ==
    (/\ pc = "returned" /\ fn = "passcode"
     /\ \A i \in 1..Len(arg) :
            OccursAt(arg, LettersOnlyToken, i)
                => \A k \in (i + 2)..Len(arg) : arg[k] \notin Digits)
        => Count(ret[1], LettersOnlyToken) = Count(arg, LettersOnlyToken)

\* the token of letters and digits is removed wherever it stands
MixedTokenRemoved ==
    (pc = "returned" /\ fn = "passcode") => Count(ret[1], MixedToken) = 0

(***************************************************************************)
(* SpecEmpty: html_to_markdown called on None, on "" and on markup that    *)
(* holds no text but whitespace.                                           *)
(***************************************************************************)
MaxMarkupPieces == 3

\* whitespace and tags that emit at most newlines, and a conditional
\* comment of Outlook
ContainerPieces ==
    {<<"<", "b", "o", "d", "y", ">">>,
     <<"<", "/", "b", "o", "d", "y", ">">>,
     <<"<", "p", ">">>,
     <<"<", "/", "p", ">">>,
     <<"<", "d", "i", "v", ">">>,
     <<" ">>,
     <<"\n">>,
     <<"&", "n", "b", "s", "p", ";">>,
     <<"<", "!", "[", "i", "f", " ", "x", "]", ">">>}

\* tags that emit a marker, and a marked section with an unknown keyword
MarkerPieces ==
    {<<"<", "b", ">">>,
     <<"<", "h", "r", ">">>,
     <<"<", "!", "[", "x", "]", ">">>}

EmptyInit ==
    /\ NoFeed
    /\ conv = NewConverter
    /\ pc = "call"
    /\ fn = "html_to_markdown"
    /\ arg \in {None} \cup {Some(t) : t \in TextsOf(ContainerPieces \cup MarkerPieces,
                                                  MaxMarkupPieces)}
    /\ ret = None
    /\ ret2 = None

SpecEmpty == EmptyInit /\ [][NextText]_vars

\* C16: html_to_markdown returns "" for None, for "" and for markup that
\* holds no text but whitespace, and does not raise.
C16_EmptyInputEmptyOutput ==
    /\ pc # "raised"
    /\ pc = "returned" => ret = Some(<< >>)

\* what does hold: None, "" and markup made of whitespace and of tags that
\* emit no marker give "", and nothing is raised
ContainerMarkupEmptyOutput ==
    (arg = None \/ arg[1] \in TextsOf(ContainerPieces, MaxMarkupPieces))
        => /\ pc # "raised"
           /\ pc = "returned" => ret = Some(<< >>)

(***************************************************************************)
(* SpecCalls: several html_to_markdown calls whose event processing is     *)
(* interleaved.  conv, events, pc and result hold one entry per call: the  *)
(* converter the call created, the events it has been fed, where it is,    *)
(* and what it returned.                                                   *)
(***************************************************************************)
NumCalls == 2

MaxCallEvents == 2

Calls == 1..NumCalls

CallTags == {"ul", "style"}

\* a converter whose output list is one list shared by all instances
SetConverterSharedOutput(convs, i, c) ==
    [j \in DOMAIN convs |->
        IF j = i THEN c ELSE [convs[j] EXCEPT !.output = c.output]]

\* the handlers of call i write the attributes of the instance that call i
\* created in __init__: convs with the converter of call i now being c
SetConverter(convs, i, c) == [convs EXCEPT ![i] = c]

CallsInit ==
    /\ NoDaemon
    /\ conv = [i \in Calls |-> NewConverter]
    /\ events = [i \in Calls |-> << >>]
    /\ pc = [i \in Calls |-> "feed"]
    /\ result = [i \in Calls |-> None]
    /\ fn = ""
    /\ arg = << >>
    /\ ret = None
    /\ ret2 = None

\* feed() of call i reaches a start tag
CallStartTag(i, tag) ==
    /\ pc[i] = "feed"
    /\ Len(events[i]) < MaxCallEvents
    /\ conv' = SetConverter(conv, i, HandleStartTag(conv[i], tag, NoAttrs))
    /\ events' = [events EXCEPT ![i] = Append(@, StartEv(tag, NoAttrs))]
    /\ UNCHANGED <<pc, result, fn, arg, ret, ret2, daemonVars>>

\* feed() of call i reaches an end tag
CallEndTag(i, tag) ==
    /\ pc[i] = "feed"
    /\ Len(events[i]) < MaxCallEvents
    /\ conv' = SetConverter(conv, i, HandleEndTag(conv[i], tag))
    /\ events' = [events EXCEPT ![i] = Append(@, EndEv(tag))]
    /\ UNCHANGED <<pc, result, fn, arg, ret, ret2, daemonVars>>

\* feed() of call i reaches text
CallData(i, data) ==
    /\ pc[i] = "feed"
    /\ Len(events[i]) < MaxCallEvents
    /\ conv' = SetConverter(conv, i, HandleData(conv[i], data))
    /\ events' = [events EXCEPT ![i] = Append(@, DataEv(data))]
    /\ UNCHANGED <<pc, result, fn, arg, ret, ret2, daemonVars>>

\* call i returns converter.get_markdown()
CallReturn(i) ==
    /\ pc[i] = "feed"
    /\ result' = [result EXCEPT ![i] = Some(GetMarkdown(conv[i]))]
    /\ pc' = [pc EXCEPT ![i] = "done"]
    /\ UNCHANGED <<conv, events, fn, arg, ret, ret2, daemonVars>>

\* html_to_markdown is called again: converter = HTMLToMarkdownConverter()
CallAgain(i) ==
    /\ pc[i] = "done"
    /\ conv' = SetConverter(conv, i, NewConverter)
    /\ events' = [events EXCEPT ![i] = << >>]
    /\ result' = [result EXCEPT ![i] = None]
    /\ pc' = [pc EXCEPT ![i] = "feed"]
    /\ UNCHANGED <<fn, arg, ret, ret2, daemonVars>>

NextCalls ==
    \/ \E i \in Calls, tag \in CallTags : CallStartTag(i, tag)
    \/ \E i \in Calls, tag \in CallTags : CallEndTag(i, tag)
    \/ \E i \in Calls : CallData(i, PlainText)
    \/ \E i \in Calls : CallReturn(i)
    \/ \E i \in Calls : CallAgain(i)

SpecCalls == CallsInit /\ [][NextCalls]_vars

\* C17: conversion calls are isolated: however the event processing of the
\* calls is interleaved, the converter of each call is in the state it is
\* in when the call runs alone on its events, and the call returns what it
\* returns alone; a new call starts from a new converter.
C17_CallsIsolated ==
    \A i \in Calls :
        /\ conv[i] = Replay(events[i])
        /\ pc[i] = "done" => result[i] = Some(GetMarkdown(Replay(events[i])))

\* one call is inside a style element and has been handed style text while
\* the other has returned the text of its document
C17_Witness ==
    /\ pc[1] = "feed"
    /\ events[1] = <<StartEv("style", NoAttrs), DataEv(PlainText)>>
    /\ pc[2] = "done"
    /\ events[2] = <<StartEv("ul", NoAttrs), DataEv(PlainText)>>
    /\ result[2] = Some(PlainText)

(***************************************************************************)
(* SpecBlock: documents of p, h2, br and style tags and text.              *)
(***************************************************************************)
BlockSpecTags == {"p", "h2", "br", "style"}

NextBlock ==
    \/ \E tag \in BlockSpecTags : StartTag(tag, NoAttrs)
    \/ \E tag \in BlockSpecTags \ {"br"} : EndTag(tag)
    \/ \E d \in TextsNow : Data(d)
    \/ Finish

SpecBlock == FeedInit /\ [][NextBlock]_vars

\* a p or h1..h6 start tag is processed outside a skip region, the buffer
\* being non-empty
BlockStartStep ==
    /\ \E tag \in {"p"} \cup HeaderTags : events' = Append(events, StartEv(tag, NoAttrs))
    /\ ~RegionOpen(events)
    /\ Join(conv.output) # << >>

\* the newlines missing at the end of s for it to end with two
MissingNewlines(s) ==
    IF EndsWith(s, NLNL) THEN << >> ELSE IF EndsWith(s, NL) THEN NL ELSE NLNL

\* the marker of the heading tag, nothing for p
HeadingMarker(tag) ==
    IF tag \in HeaderTags THEN Repeat(<<"#">>, HeaderLevel(tag)) \o <<" ">> ELSE << >>

\* the handler appended the missing newlines, then the heading marker
AppendsMissingNewlines ==
    LET current == Join(conv.output)
        tag == events'[Len(events')].tag
    IN  Join(conv'.output) = current \o MissingNewlines(current) \o HeadingMarker(tag)

\* the buffer before the heading marker
BeforeMarker(s, tag) == SubSeq(s, 1, Len(s) - Len(HeadingMarker(tag)))

\* C18: on a p or h1..h6 start tag outside a skip region with a non-empty
\* buffer the handler appends only the missing newlines (none after two
\* newlines, one after a single newline, two otherwise), so that the buffer
\* before any heading marker ends with exactly one blank line; a heading
\* then emits "#" level times and a space.
C18_BlankLineBeforeBlock ==
    [][BlockStartStep =>
        /\ AppendsMissingNewlines
        /\ EndsWith(BeforeMarker(Join(conv'.output), events'[Len(events')].tag), NLNL)
        /\ ~EndsWith(BeforeMarker(Join(conv'.output), events'[Len(events')].tag),
                     NLNL \o NL)
      ]_vars

\* the paragraph that starts stands right after a paragraph of text
AfterParagraph ==
    /\ Len(events) >= 2
    /\ events[Len(events)] = EndEv("p")
    /\ events[Len(events) - 1] = DataEv(PlainText)
    /\ events' = Append(events, StartEv("p", NoAttrs))

\* C18 as amended: the handler appends the missing newlines (none after two
\* newlines, one after a single newline, two otherwise) and the buffer before
\* any heading marker then ends with at least one blank line; a heading
\* emits "#" level times and a space; the second of two adjacent paragraphs
\* of text starts exactly one blank line after the text of the first.
C18_BlankLineBeforeBlockAmended ==
    [][/\ BlockStartStep =>
            /\ AppendsMissingNewlines
            /\ EndsWith(BeforeMarker(Join(conv'.output), events'[Len(events')].tag), NLNL)
       /\ (AfterParagraph /\ BlockStartStep) =>
            /\ EndsWith(Join(conv'.output), PlainText \o NLNL)
            /\ GetMarkdown(HandleData(conv', PlainText))
                   = GetMarkdown(conv) \o NLNL \o PlainText
      ]_vars

\* C18 witness: after text and a line break a heading started (one newline
\* was missing), and after the heading's end tag a paragraph started.
C18_Witness ==
    /\ events = <<DataEv(PlainText), StartEv("br", NoAttrs), StartEv("h2", NoAttrs),
                  EndEv("h2"), StartEv("p", NoAttrs)>>
    /\ conv.output = <<PlainText, NL, NL, <<"#", "#", " ">>, NL, NL>>

\* two adjacent paragraphs of text were rendered
AdjacentParagraphsRendered ==
    /\ pc = "done"
    /\ events = <<StartEv("p", NoAttrs), DataEv(PlainText), EndEv("p"),
                  StartEv("p", NoAttrs), DataEv(PlainText)>>
    /\ result = Some(PlainText \o NLNL \o PlainText)

(***************************************************************************)
(* SpecLink: documents of a and style tags and text.                       *)
(***************************************************************************)
\* href="u", href="v", no href at all, and href without a value
LinkAttrs ==
    {[href |-> Some(<<"u">>)], [href |-> Some(<<"v">>)], NoAttrs, [href |-> None]}

NextLink ==
    \/ \E attrs \in LinkAttrs : StartTag("a", attrs)
    \/ StartTag("style", NoAttrs)
    \/ \E tag \in {"a", "style"} : EndTag(tag)
    \/ \E d \in TextsNow : Data(d)
    \/ Finish

SpecLink == FeedInit /\ [][NextLink]_vars

RECURSIVE OpenLinks(_)
\* the targets of the links open after the events evs, innermost last, from
\* the events alone: outside a style/script region an a start tag opens a
\* link with its href and an a end tag closes the innermost open link
OpenLinks(evs) ==
    IF evs = << >> THEN << >>
    ELSE LET before == SubSeq(evs, 1, Len(evs) - 1)
             e == evs[Len(evs)]
         IN  IF RegionOpen(before) \/ e.tag # "a" THEN OpenLinks(before)
             ELSE IF e.kind = "start" THEN Append(OpenLinks(before), HrefOf(e.attrs))
             ELSE IF OpenLinks(before) # << >> THEN ButLast(OpenLinks(before))
             ELSE << >>

\* an a start tag is processed outside a skip region
LinkOpenStep ==
    /\ \E attrs \in LinkAttrs : events' = Append(events, StartEv("a", attrs))
    /\ ~RegionOpen(events)

\* an a end tag is processed outside a skip region, a link being open
LinkCloseStep ==
    /\ events' = Append(events, EndEv("a"))
    /\ ~RegionOpen(events)
    /\ OpenLinks(events) # << >>

\* "](target)"
LinkClose(target) == <<"]", "(">> \o FormatHref(target) \o <<")">>

\* C19: an a start tag outside a skip region stores its href as the pending
\* link target and emits "["; an a end tag emits "](target)", target being
\* the href of the corresponding a start tag, and clears the pending target;
\* the pending target is set only while a link is open.
C19_LinkTarget ==
    /\ [][/\ LinkOpenStep =>
                /\ conv'.link_href = HrefOf(events'[Len(events')].attrs)
                /\ conv'.output = Append(conv.output, <<"[">>)
          /\ LinkCloseStep =>
                /\ conv'.output = Append(conv.output,
                        LinkClose(OpenLinks(events)[Len(OpenLinks(events))]))
                /\ conv'.link_href = None
         ]_vars
    /\ [](conv.link_href # None => OpenLinks(events) # << >>)

RECURSIVE LastLinkEvent(_)
\* the last a start or end tag among evs that stands outside a skip region,
\* None when there is none
LastLinkEvent(evs) ==
    IF evs = << >> THEN None
    ELSE IF evs[Len(evs)].tag = "a" /\ ~RegionOpen(SubSeq(evs, 1, Len(evs) - 1))
    THEN Some(evs[Len(evs)])
    ELSE LastLinkEvent(SubSeq(evs, 1, Len(evs) - 1))

\* the pending target as the code keeps it: the href of the last a start tag
\* when no a end tag came after it
PendingTarget(evs) ==
    IF LastLinkEvent(evs) # None /\ LastLinkEvent(evs)[1].kind = "start"
    THEN HrefOf(LastLinkEvent(evs)[1].attrs)
    ELSE None

\* what does hold: the start tag stores its href and emits "["; the end tag
\* emits "](target)" with the href of the last a start tag when no a end
\* tag came since, and "](None)" otherwise, and clears the pending target;
\* the pending target is set only while a link is open
LinkTargetOfLastOpen ==
    /\ [][/\ LinkOpenStep =>
                /\ conv'.link_href = HrefOf(events'[Len(events')].attrs)
                /\ conv'.output = Append(conv.output, <<"[">>)
          /\ LinkCloseStep =>
                /\ conv'.output = Append(conv.output, LinkClose(PendingTarget(events)))
                /\ conv'.link_href = None
         ]_vars
    /\ [](conv.link_href = PendingTarget(events))
    /\ [](conv.link_href # None => OpenLinks(events) # << >>)

(***************************************************************************)
(* SpecPass: documents in which div and span tags (span standing for every *)
(* tag the handlers have no branch for) stand among a, ul, pre, code and   *)
(* style tags and text.                                                    *)
(***************************************************************************)
MaxPassEvents == 4

\* div, and a tag the renderer does not recognize
PassThroughTags == {"div", "span"}

\* tags that set list_stack, the skip state, in_code, in_pre and link_href
StateTags == {"a", "ul", "pre", "code", "style"}

NextPass ==
    \/ \E tag \in PassThroughTags \cup StateTags :
            Len(events) < MaxPassEvents /\ StartTag(tag, NoAttrs)
    \/ \E tag \in PassThroughTags \cup {"a", "style"} :
            Len(events) < MaxPassEvents /\ EndTag(tag)
    \/ \E d \in TextsNow : Len(events) < MaxPassEvents /\ Data(d)
    \/ Finish

SpecPass == FeedInit /\ [][NextPass]_vars

\* a start or end tag of div or of an unrecognized tag is processed
PassThroughStep ==
    \E tag \in PassThroughTags :
        \/ events' = Append(events, StartEv(tag, NoAttrs))
        \/ events' = Append(events, EndEv(tag))

RECURSIVE WithoutPassThrough(_)
\* the events evs with the tags of div and of unrecognized tags absent
WithoutPassThrough(evs) ==
    IF evs = << >> THEN << >>
    ELSE IF evs[1].tag \in PassThroughTags THEN WithoutPassThrough(Tail(evs))
    ELSE <<evs[1]>> \o WithoutPassThrough(Tail(evs))

\* the converters c and d agree on every attribute but current_tag
SameButCurrentTag(c, d) == c = [d EXCEPT !.current_tag = c.current_tag]

IsJoinParagraph(s, i, j) ==
    /\ OccursAt(LowerStr(s), POpen, i)
    /\ OccursAt(LowerStr(s), PClose, j - 3)
    /\ \A k \in (i + 1)..(j - 4) : ~OccursAt(LowerStr(s), PClose, k)
    /\ Contains(LowerStr(SubSeq(s, i, j)), StrongOpen \o JoinInstructions)

\* C26: the join-instruction rule replaces only the single paragraph that
\* holds the bolded join instructions by the paragraph "Microsoft Teams
\* meeting" and leaves every character outside that paragraph unchanged.
C26_JoinRuleReplacesOneParagraph ==
    (pc = "returned" /\ fn = "join instructions" /\ ret # Some(arg)) =>
        \E i \in 1..Len(arg), j \in 1..Len(arg) :
            /\ IsJoinParagraph(arg, i, j)
            /\ ret = Some(SubSeq(arg, 1, i - 1) \o TeamsMeetingParagraph
                            \o SubSeq(arg, j + 1, Len(arg)))

\* a paragraph made of the bolded join instructions alone was replaced and
\* the text after it was kept
JoinParagraphReplaced ==
    /\ pc = "returned" /\ fn = "join instructions"
    /\ ret = Some(TeamsMeetingParagraph \o <<"x">>)

\* url is cut out of s at position i: it starts with "https://", holds no
\* quote, whitespace, "<" or ">", and the character after it is one of them
\* or the end of s
IsUrlOf(url, s, i) ==
    /\ OccursAt(s, url, i)
    /\ OccursAt(url, Https, 1)
    /\ \A k \in 1..Len(url) : url[k] \notin UrlStop
    /\ (i + Len(url) <= Len(s)) => s[i + Len(url)] \in UrlStop

\* C30: a URL returned by extract_meeting_url is exactly one provider URL
\* of the input: it starts at the "https://" of that URL and ends just
\* before the first following double quote, whitespace, "<" or ">", for the
\* Teams, Zoom and Google Meet patterns alike.
C30_ReturnedUrlIsOneUrl ==
    (pc = "returned" /\ fn = "extract_meeting_url" /\ ret # None) =>
        \E i \in 1..Len(arg[1]) : IsUrlOf(ret[1], arg[1], i)

\* a Zoom URL standing between quotes was returned without them
QuotedZoomUrlReturned ==
    /\ pc = "returned" /\ fn = "extract_meeting_url"
    /\ arg = Some(<<"\"">> \o ZoomUrl \o <<"\"">>)
    /\ ret = Some(ZoomUrl)

(***************************************************************************)
(* SpecSpaced: documents whose text holds whitespace, among hr, br, p, pre,*)
(* code and style tags.                                                    *)
(***************************************************************************)
MaxSpacedEvents == 4

\* text with leading whitespace, with a run of whitespace inside, with a
\* newline at its end
SpacedTexts ==
    {<<" ", "x">>, <<"x", " ", "\t", "y">>, <<"x", "\n">>}

NextSpaced ==
    \/ \E tag \in {"hr", "br", "p", "pre", "code", "style"} :
            Len(events) < MaxSpacedEvents /\ StartTag(tag, NoAttrs)
    \/ \E tag \in {"p", "pre", "code", "style"} :
            Len(events) < MaxSpacedEvents /\ EndTag(tag)
    \/ \E d \in SpacedTexts : Len(events) < MaxSpacedEvents /\ Data(d)
    \/ Finish

SpecSpaced == FeedInit /\ [][NextSpaced]_vars

\* a text event is processed outside a skip region
TextStep ==
    /\ events' # events
    /\ events'[Len(events')].kind = "data"
    /\ ~RegionOpen(events)

\* the fragment a text event appended
Appended == conv'.output[Len(conv'.output)]

\* C24: a text event outside skip, code and pre regions that finds the
\* content of the buffer ending with a newline appends its text with the
\* leading whitespace removed.
C24_NoLeadingWhitespaceAfterNewline ==
    [][(TextStep /\ ~conv.in_code /\ ~conv.in_pre /\ EndsWith(Join(conv.output), NL)) =>
            /\ conv'.output = Append(conv.output, Appended)
            /\ Appended = LStrip(Appended)
      ]_vars

\* the whitespace characters of s are single spaces
SingleSpaces(s) ==
    /\ \A i \in 1..Len(s) : s[i] \in Whitespace => s[i] = " "
    /\ \A i \in 1..(Len(s) - 1) : ~(s[i] = " " /\ s[i + 1] = " ")

\* C25: a text event outside a skip region appends one fragment: outside
\* code and pre it holds no run of two or more whitespace characters and no
\* newline or tab, each run of whitespace having become one space; inside
\* code or pre it is the text as received.
C25_WhitespaceCollapsed ==
    [][TextStep =>
            /\ conv'.output = Append(conv.output, Appended)
            /\ IF ~conv.in_code /\ ~conv.in_pre
               THEN /\ SingleSpaces(Appended)
                    /\ Appended \in {CollapseWhitespace(events'[Len(events')].data),
                                     LStrip(CollapseWhitespace(events'[Len(events')].data))}
               ELSE Appended = events'[Len(events')].data
      ]_vars

\* text with a space and a tab inside was appended with one space outside
\* pre, and as received inside pre
C25_Witness ==
    /\ events = <<DataEv(<<"x", " ", "\t", "y">>), StartEv("pre", NoAttrs),
                  DataEv(<<"x", " ", "\t", "y">>)>>
    /\ conv.output[1] = <<"x", " ", "y">>
    /\ conv.output[Len(conv.output)] = <<"x", " ", "\t", "y">>

(***************************************************************************)
(* SpecTrail: documents of lists, paragraphs, headings, blockquotes,       *)
(* rules, table rows and pre blocks, with text that ends with a newline.   *)
(***************************************************************************)
MaxTrailEvents == 3

NextTrail ==
    \/ \E tag \in {"ul", "li", "p", "blockquote", "hr", "tr", "pre", "style"} :
            Len(events) < MaxTrailEvents /\ StartTag(tag, NoAttrs)
    \/ \E tag \in {"ul", "ol", "li", "p", "h2", "blockquote", "pre", "style"} :
            Len(events) < MaxTrailEvents /\ EndTag(tag)
    \/ \E d \in {<<"x">>, <<"x", "\n">>} : Len(events) < MaxTrailEvents /\ Data(d)
    \/ Finish

SpecTrail == FeedInit /\ [][NextTrail]_vars

\* the event is handled by ensuring a trailing newline: ul/ol close, li
\* close, p/heading close, blockquote open and close, hr, tr open, pre close
EnsuresTrailingNewline(e) ==
    \/ e.kind = "end" /\ e.tag \in {"ul", "ol", "li", "p", "blockquote", "pre"} \cup HeaderTags
    \/ e.kind = "start" /\ e.tag \in {"blockquote", "hr", "tr"}

\* what the handler emits after the newline
TrailMarker(e) ==
    CASE e.kind = "start" /\ e.tag = "blockquote" -> <<">", " ">>
      [] e.kind = "start" /\ e.tag = "hr" -> <<"-", "-", "-", "\n">>
      [] e.kind = "end" /\ e.tag = "pre" -> <<Backtick, Backtick, Backtick, "\n">>
      [] OTHER -> << >>

\* the newline missing at the end of s, if s is not empty
MissingNewline(s) == IF s # << >> /\ ~EndsWith(s, NL) THEN NL ELSE << >>

\* C27: a handler that ensures a trailing newline appends a newline only
\* when the content of the non-empty buffer does not end with one, then its
\* marker: the closing fence of a pre block whose text ends with a newline
\* comes on the next line with no blank line before it.
C27_TrailingNewlineOnlyIfMissing ==
    [][(events' # events /\ EnsuresTrailingNewline(events'[Len(events')])
        /\ ~RegionOpen(events)) =>
            Join(conv'.output) = Join(conv.output) \o MissingNewline(Join(conv.output))
                                    \o TrailMarker(events'[Len(events')])
      ]_vars

\* a pre block whose text ends with a newline was closed
PreWithNewlineClosed ==
    events = <<StartEv("pre", NoAttrs), DataEv(<<"x", "\n">>), EndEv("pre")>>

(***************************************************************************)
(* SpecTags: documents over the tags of the branches of the handlers.       *)
(***************************************************************************)
MaxTagEvents == 3

\* tags of the branches of handle_starttag that emit or change the state
BranchTags ==
    {"p", "h2", "b", "a", "ul", "li", "br", "hr", "code", "pre",
     "blockquote", "tr", "td", "style"}

\* tags of the branches of handle_endtag that emit or change the state
EndBranchTags ==
    {"p", "b", "a", "ul", "li", "code", "pre", "blockquote", "tr", "style"}

NextTags ==
    \/ \E tag \in BranchTags : Len(events) < MaxTagEvents /\ StartTag(tag, NoAttrs)
    \/ \E tag \in EndBranchTags : Len(events) < MaxTagEvents /\ EndTag(tag)
    \/ \E d \in TextsNow : Len(events) < MaxTagEvents /\ Data(d)
    \/ Finish

SpecTags == FeedInit /\ [][NextTags]_vars

\* the fragments old, in their order, are the first fragments of new
Extends(new, old) ==
    /\ Len(new) >= Len(old)
    /\ SubSeq(new, 1, Len(old)) = old

TagInRegionStep ==
    /\ events' # events
    /\ events'[Len(events')].kind \in {"start", "end"}
    /\ events'[Len(events')].tag \notin SkipTagNames
    /\ RegionOpen(events)

\* C29: while a style/script region is open a start or end tag other than
\* style/script leaves list_stack, in_code, in_pre, the pending link target
\* and the buffer unchanged.
C29_TagsInRegionHaveNoEffect ==
    [][TagInRegionStep =>
            /\ conv'.list_stack = conv.list_stack
            /\ conv'.in_code = conv.in_code
            /\ conv'.in_pre = conv.in_pre
            /\ conv'.link_href = conv.link_href
            /\ conv'.output = conv.output
      ]_vars

\* a list was opened before the region: its end tag inside the region did
\* not close it
C29_Witness ==
    /\ events = <<StartEv("ul", NoAttrs), StartEv("style", NoAttrs), EndEv("ul")>>
    /\ conv.list_stack = <<"ul">>
    /\ conv.skip_content

(***************************************************************************)
(* ContinuousSyncManager (dayflow/core/sync_daemon.py).                    *)
(*                                                                         *)
(* manager holds the fields of the instance; files holds the PID file      *)
(* (whether it exists), the status file (None, or the status last written) *)
(* and whether the status file can be written; pc is the position of the   *)
(* main thread in start(); attempts records each engine.sync call: its     *)
(* outcome, sync_start and the time at which it ended.                     *)
(***************************************************************************)
MaxAttempts == 3

\* self.interval, in seconds
IntervalSeconds == 2

\* the status _save_status writes
Status(m, now) ==
    [last_sync        |-> m.last_sync,
     sync_count       |-> m.sync_count,
     error_count      |-> m.error_count,
     interval_minutes |-> m.interval \div 60,
     updated_at       |-> now]

\* _save_status(): a write error is caught and only a warning is printed
SaveStatus(m, f, now) ==
    IF f.status_writable THEN [f EXCEPT !.status_file = Some(Status(m, now))] ELSE f

\* __init__ with _load_status(): the counts and the last sync of the
\* previous session when there is a status file
NewManager(f) ==
    [running     |-> FALSE,
     interval    |-> IntervalSeconds,
     last_sync   |-> IF f.status_file = None THEN None ELSE f.status_file[1].last_sync,
     sync_count  |-> IF f.status_file = None THEN 0 ELSE f.status_file[1].sync_count,
     error_count |-> IF f.status_file = None THEN 0 ELSE f.status_file[1].error_count]

\* the outcomes of engine.sync: a result dict, None, an Exception raised, a
\* KeyboardInterrupt raised
Outcomes == {"result", "None", "Exception", "KeyboardInterrupt"}

\* _sync_once counting every attempt that does not raise
SyncOnceCountsNone(m, outcome, sync_start) ==
    IF outcome \in {"result", "None"}
    THEN [m EXCEPT !.sync_count = @ + 1, !.last_sync = Some(sync_start)]
    ELSE m

\* the manager after _sync_once, engine.sync having ended with outcome
SyncOnceManager(m, outcome, sync_start) ==
    IF outcome = "result"
    THEN [m EXCEPT !.sync_count = @ + 1, !.last_sync = Some(sync_start)]
    ELSE m

\* except Exception in start(): self._error_count += 1
ExceptException(m) == [m EXCEPT !.error_count = @ + 1]

\* stop() that leaves the PID file in place
StopFilesKeepPid(m, f, now) == SaveStatus([m EXCEPT !.running = FALSE], f, now)

\* the files after stop(): the status saved, the PID file removed
StopFiles(m, f, now) ==
    [SaveStatus([m EXCEPT !.running = FALSE], f, now) EXCEPT !.pid_file = FALSE]

\* status files left by a previous session
PreviousStatus ==
    {None,
     Some([last_sync |-> Some(0), sync_count |-> 7, error_count |-> 5,
           interval_minutes |-> 0, updated_at |-> 0])}

\* the state after ContinuousSyncManager(engine, interval_minutes)
DaemonInit ==
    /\ conv = NewConverter
    /\ events = << >>
    /\ result = None
    /\ fn = ""
    /\ arg = << >>
    /\ ret = None
    /\ ret2 = None
    /\ files \in {[pid_file |-> FALSE, status_file |-> st, status_writable |-> w] :
                    st \in PreviousStatus, w \in BOOLEAN}
    /\ manager = NewManager(files)
    /\ clock = 0
    /\ remaining = 0
    /\ attempts = << >>
    /\ pc = "constructed"

feedVars == <<conv, events, result, fn, arg, ret, ret2>>

\* start(): self.running = True
StartRunning ==
    /\ pc = "constructed"
    /\ manager' = [manager EXCEPT !.running = TRUE]
    /\ pc' = "write_pid"
    /\ UNCHANGED <<feedVars, files, clock, remaining, attempts>>

\* start(): self.pid_file.write_text(str(os.getpid()))
WritePid ==
    /\ pc = "write_pid"
    /\ files' = [files EXCEPT !.pid_file = TRUE]
    /\ pc' = "loop"
    /\ UNCHANGED <<feedVars, manager, clock, remaining, attempts>>

\* start(): while self.running
LoopTest ==
    /\ pc = "loop"
    /\ pc' = IF manager.running THEN "sync_once" ELSE "stop"
    /\ UNCHANGED <<feedVars, manager, files, clock, remaining, attempts>>

\* _sync_once(): engine.sync ends with outcome after took seconds
SyncOnce(outcome, took) ==
    /\ pc = "sync_once"
    /\ Len(attempts) < MaxAttempts
    /\ manager' = SyncOnceManager(manager, outcome, clock)
    /\ clock' = clock + took
    /\ files' = IF outcome = "result" THEN SaveStatus(manager', files, clock') ELSE files
    /\ attempts' = Append(attempts,
                          [outcome |-> outcome, sync_start |-> clock, ended |-> clock'])
    /\ pc' = CASE outcome \in {"result", "None"} -> "synced"
               [] outcome = "Exception" -> "except_exception"
               [] outcome = "KeyboardInterrupt" -> "stop"
    /\ UNCHANGED <<feedVars, remaining>>

\* start(): if self.running: self._wait_with_countdown(), after _sync_once
AfterSync ==
    /\ pc = "synced"
    /\ pc' = IF manager.running THEN "wait" ELSE "loop"
    /\ remaining' = IF manager.running THEN manager.interval ELSE remaining
    /\ UNCHANGED <<feedVars, manager, files, clock, attempts>>

\* an except clause that gives up: the loop is left after an error
AfterExceptionGivesUp(m) == "stop"

\* where start() goes on after counting an error:
\* if self.running: self._wait_with_countdown()
AfterException(m) == IF m.running THEN "wait" ELSE "loop"

\* start(): except Exception: the error is counted, then
\* if self.running: self._wait_with_countdown()
HandleException ==
    /\ pc = "except_exception"
    /\ manager' = ExceptException(manager)
    /\ pc' = AfterException(manager)
    /\ remaining' = IF manager.running THEN manager.interval ELSE remaining
    /\ UNCHANGED <<feedVars, files, clock, attempts>>

\* _wait_with_countdown(): one turn of the for loop: it ends when the range
\* is used up or running is false, else it sleeps one second
WaitTick ==
    /\ pc = "wait"
    /\ IF remaining = 0 \/ ~manager.running
       THEN pc' = "loop" /\ UNCHANGED <<clock, remaining>>
       ELSE pc' = "wait" /\ clock' = clock + 1 /\ remaining' = remaining - 1
    /\ UNCHANGED <<feedVars, manager, files, attempts>>

\* start(): self.stop() after the loop
Stop ==
    /\ pc = "stop"
    /\ manager' = [manager EXCEPT !.running = FALSE]
    /\ files' = StopFiles(manager, files, clock)
    /\ pc' = "returned"
    /\ UNCHANGED <<feedVars, clock, remaining, attempts>>

\* SIGINT or SIGTERM: _signal_handler runs stop(), then sys.exit(0).  The
\* interpreter runs signal handlers at calls and loop turns: none lies
\* between the raise in _sync_once and the count in the except clause.
Signal ==
    /\ pc \notin {"exited", "except_exception"}
    /\ manager' = [manager EXCEPT !.running = FALSE]
    /\ files' = StopFiles(manager, files, clock)
    /\ pc' = "exited"
    /\ UNCHANGED <<feedVars, clock, remaining, attempts>>

\* running is set to False from outside the loop (another thread, or the
\* engine during a sync)
SetNotRunning ==
    /\ pc \in {"write_pid", "loop", "sync_once", "synced", "except_exception", "wait"}
    /\ manager.running
    /\ manager' = [manager EXCEPT !.running = FALSE]
    /\ UNCHANGED <<feedVars, pc, files, clock, remaining, attempts>>

\* the steps of the main thread
MainThread ==
    \/ StartRunning
    \/ WritePid
    \/ LoopTest
    \/ \E outcome \in Outcomes, took \in {0, 1} : SyncOnce(outcome, took)
    \/ AfterSync
    \/ HandleException
    \/ WaitTick
    \/ Stop

NextDaemon ==
    \/ StartRunning
    \/ WritePid
    \/ LoopTest
    \/ \E outcome \in Outcomes, took \in {0, 1} : SyncOnce(outcome, took)
    \/ AfterSync
    \/ HandleException
    \/ WaitTick
    \/ Stop
    \/ Signal
    \/ SetNotRunning

SpecDaemon == DaemonInit /\ [][NextDaemon]_vars

\* the number of attempts whose outcome is in outcomes
CountOutcomes(outcomes) ==
    Cardinality({k \in 1..Len(attempts) : attempts[k].outcome \in outcomes})

\* sync_start of the last attempt that returned a result, loaded being the
\* last sync at construction
LastResultStart(loaded) ==
    LET hits == {k \in 1..Len(attempts) : attempts[k].outcome = "result"}
    IN  IF hits = {} THEN loaded
        ELSE Some(attempts[CHOOSE k \in hits : \A j \in hits : j <= k].sync_start)

\* the manager as constructed, before any attempt
Loaded == {NewManager([pid_file |-> FALSE, status_file |-> st, status_writable |-> TRUE]) :
             st \in PreviousStatus}

\* the counts are those loaded plus the attempts that returned a result and
\* the attempts that raised one of raising
CountsFollow(raising) ==
    pc # "except_exception" =>
        \E m0 \in Loaded :
            /\ manager.sync_count = m0.sync_count + CountOutcomes({"result"})
            /\ manager.error_count = m0.error_count + CountOutcomes(raising)
            /\ manager.last_sync = LastResultStart(m0.last_sync)

\* a step of _sync_once leaves the error count alone, and no other step
\* changes the sync count or the last sync
SyncOnceStep ==
    /\ attempts' # attempts => manager'.error_count = manager.error_count
    /\ attempts' = attempts =>
           /\ manager'.sync_count = manager.sync_count
           /\ manager'.last_sync = manager.last_sync

\* C21 as stated: the sync count grows by one for each attempt whose
\* engine.sync returns a result, the error count by one for each attempt
\* that raises an exception (KeyboardInterrupt included), an attempt that
\* raises or returns None changes neither the sync count nor the last sync,
\* and _sync_once never changes the error count.
C21_CountsFollowAttempts ==
    CountsFollow({"Exception", "KeyboardInterrupt"})

\* C21 amended: the sync count grows by one for each attempt whose
\* engine.sync returns a result, the error count by one for each attempt
\* that raises an Exception (a KeyboardInterrupt ends the loop and is not
\* counted), an attempt that raises or returns None changes neither the sync
\* count nor the last sync, and _sync_once never changes the error count.
C21_CountsFollowAttemptsAmended ==
    /\ [](CountsFollow({"Exception"}))
    /\ [][SyncOnceStep]_vars

\* three attempts were made: one returned a result, one None, one raised
C21_Witness ==
    /\ Len(attempts) = 3
    /\ \A o \in {"result", "None", "Exception"} : CountOutcomes({o}) = 1
    /\ pc = "returned"

\* start() or the signal handler is over
LoopEnded == pc \in {"returned", "exited"}

\* the status file holds the manager's counters, written at some time
StatusSaved ==
    \E t \in 0..clock : files.status_file = Some(Status(manager, t))

\* the first sync attempt finds the PID file written
FirstAttemptStep ==
    (attempts = << >> /\ attempts' # << >>) => files.pid_file

\* C22 as stated: start() writes the PID file before the first sync attempt,
\* and once the loop has ended stop() has run: running is false, the status
\* has been saved and the PID file no longer exists.
C22_PidFileMarksRunning ==
    /\ [][FirstAttemptStep]_vars
    /\ [](LoopEnded => (~manager.running /\ StatusSaved /\ ~files.pid_file))

\* C22 amended: start() writes the PID file before the first sync attempt,
\* and once the loop has ended stop() has run: running is false, the PID
\* file no longer exists, and the status has been saved unless the status
\* file cannot be written, in which case it is left as it was found.
C22_PidFileMarksRunningAmended ==
    /\ [][FirstAttemptStep]_vars
    /\ [](LoopEnded =>
            /\ ~manager.running
            /\ ~files.pid_file
            /\ IF files.status_writable THEN StatusSaved
               ELSE files.status_file \in PreviousStatus)

\* the loop ended on a KeyboardInterrupt in the second attempt and start()
\* has returned
C22_Witness ==
    /\ pc = "returned"
    /\ Len(attempts) = 2
    /\ attempts[2].outcome = "KeyboardInterrupt"
    /\ files.status_writable

\* the main thread keeps running: engine.sync and time.sleep return
SpecDaemonFair == DaemonInit /\ [][NextDaemon]_vars /\ WF_vars(MainThread)

\* after an Exception counted while running, the countdown starts with a
\* whole interval
ExceptionStep ==
    (pc = "except_exception" /\ pc' # pc /\ manager.running) =>
        (pc' = "wait" /\ remaining' = manager.interval)

\* the loop is left only with running false, on a KeyboardInterrupt raised
\* by the attempt, or by a signal (which leaves through sys.exit)
LoopEndStep ==
    (pc \in {"loop", "sync_once", "synced", "except_exception", "wait"}
      /\ pc' \in {"stop", "returned", "exited"}) =>
        \/ pc = "loop" /\ ~manager.running /\ pc' = "stop"
        \/ /\ pc = "sync_once" /\ pc' = "stop"
           /\ attempts' # attempts
           /\ attempts'[Len(attempts')].outcome = "KeyboardInterrupt"
        \/ pc' = "exited"

\* the countdown does not sleep once running is false: its next turn ends it
CountdownStep ==
    (pc = "wait" /\ ~manager.running) =>
        (clock' = clock /\ remaining' = remaining /\ pc' \in {"wait", "loop", "exited"})

\* an attempt that follows one that raised an Exception starts one interval
\* after it
NextAttemptAfterInterval ==
    \A k \in 1..(Len(attempts) - 1) :
        attempts[k].outcome = "Exception" =>
            attempts[k + 1].sync_start = attempts[k].ended + manager.interval

\* the attempt after the n-th is made unless running becomes false
AnotherAttempt(n) ==
    (pc = "except_exception" /\ manager.running /\ Len(attempts) = n)
        ~> (Len(attempts) > n \/ ~manager.running)

\* C23: a failed sync does not stop the daemon: after an attempt raises an
\* Exception while running is true the loop waits one interval and makes
\* another attempt; the loop ends only when running becomes false, on
\* KeyboardInterrupt or on a shutdown signal; the countdown ends early as
\* soon as running becomes false.
C23_FailedSyncDoesNotStop ==
    /\ [][ExceptionStep /\ LoopEndStep /\ CountdownStep]_vars
    /\ []NextAttemptAfterInterval
    /\ \A n \in 1..(MaxAttempts - 1) : AnotherAttempt(n)

\* an attempt raised an Exception, the loop waited and the next attempt
\* returned a result
C23_Witness ==
    /\ Len(attempts) = 2
    /\ attempts[1].outcome = "Exception"
    /\ attempts[2].outcome = "result"
    /\ manager.running

====
